---- MODULE Spec2Model ----
(***************************************************************************)
(* Model of the STM32L1 real-time-clock driver (src/src/rtc.rs).           *)
(*                                                                         *)
(* The driver is one execution context that runs a public operation step   *)
(* by step (one step per register access); the peripheral answers the      *)
(* polled flags in steps of its own.  `pc` is the driver's position,       *)
(* `log` the register accesses of the operation in progress (or of the     *)
(* last one, once it has returned).                                        *)
(***************************************************************************)
EXTENDS Integers, Naturals, Sequences, FiniteSets, TLC

(***************************************************************************)
(* Bounds of the model.                                                    *)
(***************************************************************************)
\* bcd2_encode is tried on every word 0..MaxWord
MaxWord == 2600
\* rejected setter inputs reach this far above the top of each domain
Over == 2
\* wakeup intervals are drawn this far on each side of 0, 2^16 and 2^17
Slack == 2

(***************************************************************************)
(* Program constants.                                                      *)
(***************************************************************************)
KEY1 == 202
KEY2 == 83
LOCK == 255
WUCK_SPRE == 4
WUCK_SPRE_OFFSET == 6
LINE_ALARM == 17
LINE_TIMESTAMP == 19
LINE_WAKEUP == 20
EPOCH == 1970
LAST_YEAR == 2069

U8 == 256
U16 == 65536

(***************************************************************************)
(* Calendar codec (rtc.rs 582-633).                                        *)
(***************************************************************************)
\* bcd2_encode: Ok((word / 10, word % 10)), or Err when a digit does not fit u8
bcd2_encode(word) ==
    IF word \div 10 >= U8 THEN [ok |-> FALSE, l |-> 0, r |-> 0]
    ELSE [ok |-> TRUE, l |-> word \div 10, r |-> word % 10]

\* bcd2_decode: fst * 10 + snd, computed in u8 and widened to u32
bcd2_decode_hex(fst, snd) == (fst * 16 + snd) % U8

bcd2_decode(fst, snd) == (fst * 10 + snd) % U8

\* a register field of `width` bits keeps the low bits of what is written
Field(v, width) == v % (2 ^ width)

decode_seconds(t) == bcd2_decode(t.st, t.su) % U8
decode_minutes(t) == bcd2_decode(t.mnt, t.mnu) % U8
decode_hours(t) == bcd2_decode(t.ht, t.hu) % U8
decode_day(d) == bcd2_decode(d.dt, d.du) % U8
decode_month_NoTens(d) == bcd2_decode(0, d.mu) % U8

decode_month(d) == bcd2_decode(IF d.mt THEN 1 ELSE 0, d.mu) % U8
decode_year(d) == (bcd2_decode(d.yt, d.yu) + EPOCH) % U16


(***************************************************************************)
(* State.                                                                  *)
(***************************************************************************)
VARIABLES
    pc,     \* position of the driver: "idle" between operations
    op,     \* operation in progress, or the last one once pc = "idle"
    arg,    \* its argument
    ret,    \* its result: "none" while running, "Ok", "Err" or a date-time
    loc,    \* its local variables (register values read, encoded digits)
    log,    \* its register accesses, in order
    stamp,  \* the date-time set_datetime programmed, <<>> once anything else wrote
    wpr,    \* RTC write protection: last key written, and whether unlocked
    isr,    \* RTC initialization and status register
    cr,     \* RTC control register
    tr,     \* RTC time register
    dr,     \* RTC date register
    prer,   \* RTC prescaler register
    wutr,   \* RTC wakeup timer register
    exti,   \* interrupt-line controller: trigger, mask, pending registers
    pwr,    \* power controller: DBP and the wake-up flag
    rcc     \* clock controller: APB1 enables and the control/status register

vars == <<pc, op, arg, ret, loc, log, stamp, wpr, isr, cr, tr, dr, prer, wutr, exti, pwr, rcc>>

hw == <<wpr, isr, cr, tr, dr, prer, wutr, exti, pwr, rcc>>

cal == <<tr, dr>>

\* one logged access: what was done, the protection state it was done in, and
\* for the RSF poll the value of RSF it read
Ev(e) == [ev |-> e, open |-> wpr.open, initf |-> isr.initf, rsf |-> (e = "rsf:seen" /\ isr.rsf)]

Logged(e) == log' = Append(log, Ev(e))

\* positions of the events named e in the log
At(e) == {i \in 1..Len(log) : log[i].ev = e}

Did(e) == At(e) # {}

\* every e1 comes before every e2, and both happened
Before(e1, e2) == Did(e1) /\ Did(e2) /\ \A i \in At(e1), j \in At(e2) : i < j

(***************************************************************************)
(* Register semantics of the peripheral, as the driver relies on them.     *)
(***************************************************************************)
\* WPR: 0xCA then 0x53 unlocks, any other byte locks again
WriteWPR(v) ==
    wpr' = [key |-> v,
            open |-> IF v = KEY2 /\ wpr.key = KEY1 THEN TRUE
                     ELSE IF v = KEY1 THEN wpr.open
                     ELSE FALSE]

\* ISR: INIT is read/write; INITF and WUTWF are read-only; the flags RSF, WUTF,
\* ALRAF, ALRBF, TSF are cleared by writing 0 and unchanged by writing 1
WriteISR(v) ==
    isr' = [init |-> v.init, initf |-> isr.initf, wutwf |-> isr.wutwf,
            rsf |-> isr.rsf /\ v.rsf, wutf |-> isr.wutf /\ v.wutf,
            alraf |-> isr.alraf /\ v.alraf, alrbf |-> isr.alrbf /\ v.alrbf,
            tsf |-> isr.tsf /\ v.tsf]

\* TR, DR, PRER: written only while unlocked and in init mode
CalWritable == wpr.open /\ isr.initf

WriteTR(v) == tr' = IF CalWritable THEN v ELSE tr

WriteDR(v) == dr' = IF CalWritable THEN v ELSE dr

WritePRER(v) == prer' = IF CalWritable THEN v ELSE prer

\* CR: written only while unlocked; the hour format only in init mode; the
\* wakeup clock selection only while the wake timer is off and write-allowed
WriteCR(v) ==
    cr' = IF ~wpr.open THEN cr
          ELSE [v EXCEPT !.fmt = IF isr.initf THEN v.fmt ELSE cr.fmt,
                         !.wucksel = IF ~cr.wute /\ isr.wutwf THEN v.wucksel
                                     ELSE cr.wucksel]

\* WUTR: written only while unlocked and the write-allowed flag is set
WriteWUTR(v) == wutr' = IF wpr.open /\ isr.wutwf THEN v ELSE wutr

\* reset values that `write` starts from
TR_RESET == [ht |-> 0, hu |-> 0, mnt |-> 0, mnu |-> 0, st |-> 0, su |-> 0, pm |-> FALSE]

DR_RESET == [yt |-> 0, yu |-> 0, wdu |-> 1, mt |-> FALSE, mu |-> 1, dt |-> 0, du |-> 1]

CR_RESET == [fmt |-> FALSE, wute |-> FALSE, wutie |-> FALSE, alraie |-> FALSE,
             alrbie |-> FALSE, tsie |-> FALSE, wucksel |-> 0]


ISR_NONE == [init |-> FALSE, initf |-> FALSE, wutwf |-> FALSE, rsf |-> FALSE,
             wutf |-> FALSE, alraf |-> FALSE, alrbf |-> FALSE, tsf |-> FALSE]

\* the locals of an operation that has not read anything yet
NoLoc == [isr |-> ISR_NONE, tr |-> TR_RESET, dr |-> DR_RESET, bits |-> {}]

Result(tag) == [tag |-> tag, v |-> <<>>]

(***************************************************************************)
(* Calling and returning.                                                  *)
(***************************************************************************)
\* an operation starts: nothing is touched yet
Begin(o, a, first) ==
    /\ pc = "idle"
    /\ pc' = first
    /\ op' = o
    /\ arg' = a
    /\ ret' = Result("none")
    /\ loc' = NoLoc
    /\ log' = <<>>
    /\ stamp' = IF o = "get_datetime" THEN stamp ELSE <<>>
    /\ UNCHANGED hw

\* an operation returns Err(InvalidInputData) from its validation
Reject(o, a) ==
    /\ pc = "idle"
    /\ pc' = "idle"
    /\ op' = o
    /\ arg' = a
    /\ ret' = Result("Err")
    /\ loc' = NoLoc
    /\ log' = <<>>
    /\ UNCHANGED <<stamp, hw>>

\* a step of the operation in progress moves on to `next`
Goto(next) == pc' = next /\ UNCHANGED <<op, arg, ret, stamp>>

Return(r) ==
    /\ pc' = "idle" /\ ret' = r /\ loc' = NoLoc
    /\ stamp' = IF op = "set_datetime" THEN arg ELSE stamp
    /\ UNCHANGED <<op, arg>>

\* unwrap() or expect() failed: the program stops here
Panic == pc' = "panic" /\ ret' = Result("panic") /\ loc' = NoLoc /\ UNCHANGED <<op, arg, stamp>>

(***************************************************************************)
(* The per-field setters (rtc.rs 386-481): validate, encode, then modify.  *)
(***************************************************************************)
SecondsOk(seconds) == seconds <= 59

HoursOk(hours) == hours <= 23

WeekdayOk(weekday) == weekday >= 1 /\ weekday <= 7

DayOk(day) == day >= 1 /\ day <= 31

MonthOk(month) == month >= 1 /\ month <= 12

YearOk_NoLower(year) == year <= LAST_YEAR

YearOk(year) == year >= EPOCH /\ year <= LAST_YEAR

\* validation and encoding succeed, so the setter goes on to modify
Accept(o, a, valid, word) ==
    IF valid /\ bcd2_encode(word).ok THEN Begin(o, a, "m_key1") ELSE Reject(o, a)

set_seconds(S) == \E seconds \in S : Accept("set_seconds", <<seconds>>, SecondsOk(seconds), seconds)

set_minutes(S) == \E minutes \in S : Accept("set_minutes", <<minutes>>, SecondsOk(minutes), minutes)

set_hours(S) == \E hours \in S : Accept("set_hours", <<hours>>, HoursOk(hours), hours)

set_weekday(S) == \E weekday \in S : Accept("set_weekday", <<weekday>>, WeekdayOk(weekday), 0)

set_day(S) == \E day \in S : Accept("set_day", <<day>>, DayOk(day), day)

set_month(S) == \E month \in S : Accept("set_month", <<month>>, MonthOk(month), month)

\* year as u32 - 1970 is only computed for a year that passed the range check
set_year(S) == \E year \in S : Accept("set_year", <<year>>, YearOk(year), IF YearOk(year) THEN year - EPOCH ELSE 0)


(***************************************************************************)
(* The combined setters (rtc.rs 366-383, 487-548).  A Date, Time or        *)
(* PrimitiveDateTime argument is <<year, month, day>>, <<hour, minute,     *)
(* second>> or <<year, month, day, hour, minute, second>>.                 *)
(***************************************************************************)
set_time(S) == \E time \in S :
    IF bcd2_encode(time[1]).ok /\ bcd2_encode(time[2]).ok /\ bcd2_encode(time[3]).ok
    THEN Begin("set_time", time, "m_key1") ELSE Reject("set_time", time)

\* (year - 1970) as u32, month and day all encode; the year has passed the range
\* check by then, so the subtraction does not wrap
DateEncodes(date) ==
    /\ bcd2_encode(date[1] - EPOCH).ok
    /\ bcd2_encode(date[2]).ok
    /\ bcd2_encode(date[3]).ok

set_date(S) == \E date \in S :
    IF YearOk(date[1]) /\ DateEncodes(date)
    THEN Begin("set_date", date, "m_key1") ELSE Reject("set_date", date)

set_datetime(S) == \E date \in S :
    IF /\ YearOk(date[1]) /\ DateEncodes(date)
       /\ bcd2_encode(date[4]).ok /\ bcd2_encode(date[5]).ok /\ bcd2_encode(date[6]).ok
    THEN Begin("set_datetime", date, "m_key1") ELSE Reject("set_datetime", date)

set_prescalers(S) == \E p \in S : Begin("set_prescalers", p, "m_key1")

(***************************************************************************)
(* The closures handed to modify: the new value of the register written.   *)
(***************************************************************************)
tr_seconds(t, seconds) ==
    LET e == bcd2_encode(seconds) IN [t EXCEPT !.st = Field(e.l, 3), !.su = Field(e.r, 4)]

tr_minutes(t, minutes) ==
    LET e == bcd2_encode(minutes) IN [t EXCEPT !.mnt = Field(e.l, 3), !.mnu = Field(e.r, 4)]

tr_hours(t, hours) ==
    LET e == bcd2_encode(hours) IN [t EXCEPT !.ht = Field(e.l, 2), !.hu = Field(e.r, 4)]

dr_weekday(d, weekday) == [d EXCEPT !.wdu = Field(weekday, 3)]

dr_day(d, day) ==
    LET e == bcd2_encode(day) IN [d EXCEPT !.dt = Field(e.l, 2), !.du = Field(e.r, 4)]

dr_month_TensOverOne(d, month) ==
    LET e == bcd2_encode(month) IN [d EXCEPT !.mt = (e.l > 1), !.mu = Field(e.r, 4)]

dr_month(d, month) ==
    LET e == bcd2_encode(month) IN [d EXCEPT !.mt = (e.l > 0), !.mu = Field(e.r, 4)]

dr_year(d, year) ==
    LET e == bcd2_encode(year - EPOCH) IN [d EXCEPT !.yt = Field(e.l, 4), !.yu = Field(e.r, 4)]

\* regs.tr.write: every field from the argument, PM cleared, the rest at reset
tr_write(hour, minute, second) ==
    LET h == bcd2_encode(hour)
        m == bcd2_encode(minute)
        s == bcd2_encode(second)
    IN [TR_RESET EXCEPT !.ht = Field(h.l, 2), !.hu = Field(h.r, 4),
                        !.mnt = Field(m.l, 3), !.mnu = Field(m.r, 4),
                        !.st = Field(s.l, 3), !.su = Field(s.r, 4),
                        !.pm = FALSE]

\* regs.dr.write: day, month, year from the argument, the rest at reset
dr_write(year, month, day) ==
    LET y == bcd2_encode(year - EPOCH)
        m == bcd2_encode(month)
        d == bcd2_encode(day)
    IN [DR_RESET EXCEPT !.dt = Field(d.l, 2), !.du = Field(d.r, 4),
                        !.mt = (m.l > 0), !.mu = Field(m.r, 4),
                        !.yt = Field(y.l, 4), !.yu = Field(y.r, 4)]

prer_modify(p, prediv_s, prediv_a) ==
    [p EXCEPT !.s = Field(prediv_s, 15), !.a = Field(prediv_a, 7)]


(***************************************************************************)
(* modify (rtc.rs 341-363), one action per register access.                *)
(***************************************************************************)
\* self.regs.wpr.write(0xCA)
ModKey1 ==
    /\ pc = "m_key1"
    /\ WriteWPR(KEY1) /\ Logged("wpr:CA")
    /\ Goto("m_key2")
    /\ UNCHANGED <<loc, isr, cr, tr, dr, prer, wutr, exti, pwr, rcc>>

\* self.regs.wpr.write(0x53)
ModKey2 ==
    /\ pc = "m_key2"
    /\ WriteWPR(KEY2) /\ Logged("wpr:53")
    /\ Goto("m_rd")
    /\ UNCHANGED <<loc, isr, cr, tr, dr, prer, wutr, exti, pwr, rcc>>

\* where modify goes after reading ISR: init entry is skipped when INITF is set
AfterInitCheck_Never(initf) == "m_body"

AfterInitCheck(initf) == IF initf THEN "m_body" ELSE "m_init_r"

\* let isr = self.regs.isr.read(); if isr.initf().bit_is_clear() { .. }
ModReadInitf ==
    /\ pc = "m_rd"
    /\ Logged(IF isr.initf THEN "isr:initf_set" ELSE "isr:initf_clear")
    /\ Goto(AfterInitCheck(isr.initf))
    /\ UNCHANGED <<loc, hw>>

\* self.regs.isr.modify(|_, w| w.init().set_bit()): the read
ModInitRead ==
    /\ pc = "m_init_r"
    /\ loc' = [loc EXCEPT !.isr = isr]
    /\ Goto("m_init_w")
    /\ UNCHANGED <<log, hw>>

\* .. and the write
ModInitWrite ==
    /\ pc = "m_init_w"
    /\ WriteISR([loc.isr EXCEPT !.init = TRUE]) /\ Logged("init:set")
    /\ Goto("m_wait")
    /\ UNCHANGED <<loc, wpr, cr, tr, dr, prer, wutr, exti, pwr, rcc>>

\* while self.regs.isr.read().initf().bit_is_clear() {}
ModWaitInitf ==
    /\ pc = "m_wait"
    /\ isr.initf
    /\ Logged("initf:seen")
    /\ Goto("m_body")
    /\ UNCHANGED <<loc, hw>>

\* the position after the closure's first register access
AfterBody_DateOnly(o) ==
    IF o \in {"new", "with_config", "new_lsi", "lsi_with_config"}
    THEN "m_body2" ELSE "m_exit_r"

AfterBody(o) ==
    IF o \in {"set_datetime", "new", "with_config", "new_lsi", "lsi_with_config"}
    THEN "m_body2" ELSE "m_exit_r"

\* closure(&mut self.regs): its first (for most operations only) register access
ModBody ==
    /\ pc = "m_body"
    /\ CASE op = "set_seconds" ->
              WriteTR(tr_seconds(tr, arg[1])) /\ Logged("wr:TR") /\ UNCHANGED <<dr, prer, cr>>
         [] op = "set_minutes" ->
              WriteTR(tr_minutes(tr, arg[1])) /\ Logged("wr:TR") /\ UNCHANGED <<dr, prer, cr>>
         [] op = "set_hours" ->
              WriteTR(tr_hours(tr, arg[1])) /\ Logged("wr:TR") /\ UNCHANGED <<dr, prer, cr>>
         [] op = "set_time" ->
              WriteTR(tr_write(arg[1], arg[2], arg[3])) /\ Logged("wr:TR") /\ UNCHANGED <<dr, prer, cr>>
         [] op = "set_weekday" ->
              WriteDR(dr_weekday(dr, arg[1])) /\ Logged("wr:DR") /\ UNCHANGED <<tr, prer, cr>>
         [] op = "set_day" ->
              WriteDR(dr_day(dr, arg[1])) /\ Logged("wr:DR") /\ UNCHANGED <<tr, prer, cr>>
         [] op = "set_month" ->
              WriteDR(dr_month(dr, arg[1])) /\ Logged("wr:DR") /\ UNCHANGED <<tr, prer, cr>>
         [] op = "set_year" ->
              WriteDR(dr_year(dr, arg[1])) /\ Logged("wr:DR") /\ UNCHANGED <<tr, prer, cr>>
         [] op \in {"set_date", "set_datetime"} ->
              WriteDR(dr_write(arg[1], arg[2], arg[3])) /\ Logged("wr:DR") /\ UNCHANGED <<tr, prer, cr>>
         [] op = "set_prescalers" ->
              WritePRER(prer_modify(prer, arg[1], arg[2])) /\ Logged("wr:PRER") /\ UNCHANGED <<tr, dr, cr>>
         [] op \in {"new", "with_config", "new_lsi", "lsi_with_config"} ->
              WriteCR([cr EXCEPT !.fmt = FALSE]) /\ Logged("wr:CR") /\ UNCHANGED <<tr, dr, prer>>
    /\ Goto(AfterBody(op))
    /\ UNCHANGED <<loc, wpr, isr, wutr, exti, pwr, rcc>>

\* the closure's second register access: set_datetime's TR, a constructor's PRER
ModBody2 ==
    /\ pc = "m_body2"
    /\ CASE op = "set_datetime" ->
              WriteTR(tr_write(arg[4], arg[5], arg[6])) /\ Logged("wr:TR") /\ UNCHANGED <<dr, prer>>
         [] op \in {"new", "with_config", "new_lsi", "lsi_with_config"} ->
              WritePRER(prer_modify(prer, arg[1], arg[2])) /\ Logged("wr:PRER") /\ UNCHANGED <<tr, dr>>
    /\ Goto("m_exit_r")
    /\ UNCHANGED <<loc, wpr, isr, cr, wutr, exti, pwr, rcc>>

\* self.regs.isr.modify(|_, w| w.init().clear_bit()): the read
ModExitRead ==
    /\ pc = "m_exit_r"
    /\ loc' = [loc EXCEPT !.isr = isr]
    /\ Goto("m_exit_w")
    /\ UNCHANGED <<log, hw>>

\* .. and the write
ModExitWrite ==
    /\ pc = "m_exit_w"
    /\ WriteISR([loc.isr EXCEPT !.init = FALSE]) /\ Logged("init:clear")
    /\ Goto("m_wait2")
    /\ UNCHANGED <<loc, wpr, cr, tr, dr, prer, wutr, exti, pwr, rcc>>

\* while !self.regs.isr.read().initf().bit_is_clear() {}
ModWaitExit_NoWait ==
    /\ pc = "m_wait2"
    /\ Logged("initf:gone")
    /\ Goto("m_lock")
    /\ UNCHANGED <<loc, hw>>

ModWaitExit ==
    /\ pc = "m_wait2"
    /\ ~isr.initf
    /\ Logged("initf:gone")
    /\ Goto("m_lock")
    /\ UNCHANGED <<loc, hw>>

\* self.regs.wpr.write(0xFF), and the operation returns
ModLock ==
    /\ pc = "m_lock"
    /\ WriteWPR(LOCK) /\ Logged("wpr:FF")
    /\ Return(Result("Ok"))
    /\ UNCHANGED <<isr, cr, tr, dr, prer, wutr, exti, pwr, rcc>>


(***************************************************************************)
(* get_datetime (rtc.rs 550-573).                                          *)
(***************************************************************************)
get_datetime == Begin("get_datetime", <<>>, "g_wait")

\* while self.regs.isr.read().rsf().bit_is_clear() {}
GetWaitRsf_NoWait ==
    /\ pc = "g_wait"
    /\ Logged("rsf:seen")
    /\ Goto("g_tr")
    /\ UNCHANGED <<loc, hw>>

GetWaitRsf ==
    /\ pc = "g_wait"
    /\ isr.rsf
    /\ Logged("rsf:seen")
    /\ Goto("g_tr")
    /\ UNCHANGED <<loc, hw>>

\* let tr = self.regs.tr.read();
GetReadTR ==
    /\ pc = "g_tr"
    /\ loc' = [loc EXCEPT !.tr = tr] /\ Logged("rd:TR")
    /\ Goto("g_dr")
    /\ UNCHANGED hw

\* let dr = self.regs.dr.read();
GetReadDR ==
    /\ pc = "g_dr"
    /\ loc' = [loc EXCEPT !.dr = dr] /\ Logged("rd:DR")
    /\ Goto("g_clr_r")
    /\ UNCHANGED hw

\* self.regs.isr.modify(|_, w| w.rsf().clear_bit()): the read
GetClearRead ==
    /\ pc = "g_clr_r"
    /\ loc' = [loc EXCEPT !.isr = isr]
    /\ Goto("g_clr_w")
    /\ UNCHANGED <<log, hw>>

\* .. and the write
GetClearWrite ==
    /\ pc = "g_clr_w"
    /\ WriteISR([loc.isr EXCEPT !.rsf = FALSE]) /\ Logged("rsf:clear")
    /\ Goto("g_ret")
    /\ UNCHANGED <<loc, wpr, cr, tr, dr, prer, wutr, exti, pwr, rcc>>

IsLeap(year) == year % 4 = 0 /\ (year % 100 # 0 \/ year % 400 = 0)

DaysInMonth(year, month) ==
    IF month = 2 THEN (IF IsLeap(year) THEN 29 ELSE 28)
    ELSE IF month \in {4, 6, 9, 11} THEN 30 ELSE 31

\* Date::from_calendar_date(..) and month.try_into() succeed
ValidDate(year, month, day) ==
    month >= 1 /\ month <= 12 /\ day >= 1 /\ day <= DaysInMonth(year, month)

\* Time::from_hms(..) succeeds
ValidTime(hours, minutes, seconds) == hours <= 23 /\ minutes <= 59 /\ seconds <= 59

\* the six decoded fields of the registers read
Decoded(t, d) ==
    <<decode_year(d), decode_month(d), decode_day(d),
      decode_hours(t), decode_minutes(t), decode_seconds(t)>>

\* decode, compose and return; unwrap() panics on an invalid date or time
GetReturn ==
    /\ pc = "g_ret"
    /\ LET v == Decoded(loc.tr, loc.dr) IN
          IF ValidDate(v[1], v[2], v[3]) /\ ValidTime(v[4], v[5], v[6])
          THEN Return([tag |-> "DateTime", v |-> v])
          ELSE Panic
    /\ UNCHANGED <<log, hw>>

(***************************************************************************)
(* The peripheral's own steps: the flags the driver polls.                 *)
(***************************************************************************)
\* INIT set: the calendar stops, INITF is raised and RSF cleared
HwInitEnter ==
    /\ isr.init /\ ~isr.initf
    /\ isr' = [isr EXCEPT !.initf = TRUE, !.rsf = FALSE]
    /\ UNCHANGED <<pc, op, arg, ret, loc, log, stamp, wpr, cr, tr, dr, prer, wutr, exti, pwr, rcc>>

\* INIT cleared: the calendar restarts and INITF drops
HwInitExit ==
    /\ ~isr.init /\ isr.initf
    /\ isr' = [isr EXCEPT !.initf = FALSE]
    /\ UNCHANGED <<pc, op, arg, ret, loc, log, stamp, wpr, cr, tr, dr, prer, wutr, exti, pwr, rcc>>

\* the calendar is copied to the shadow registers: RSF is raised
HwSync ==
    /\ ~isr.init /\ ~isr.initf /\ ~isr.rsf
    /\ isr' = [isr EXCEPT !.rsf = TRUE]
    /\ UNCHANGED <<pc, op, arg, ret, loc, log, stamp, wpr, cr, tr, dr, prer, wutr, exti, pwr, rcc>>


(***************************************************************************)
(* The bring-up constructors (rtc.rs 60-223).  A constructor's argument is *)
(* <<prediv_s, prediv_a, bypass>>; bypass is 1 for LSEClockMode::Bypass.   *)
(***************************************************************************)
LseCtors == {"new", "with_config"}

LsiCtors == {"new_lsi", "lsi_with_config"}

Ctors == LseCtors \cup LsiCtors

new == Begin("new", <<255, 127, 0>>, "c_apb1")

with_config(S) == \E a \in S : Begin("with_config", a, "c_apb1")

new_lsi == Begin("new_lsi", <<249, 127, 0>>, "c_apb1")

lsi_with_config(S) == \E a \in S : Begin("lsi_with_config", <<a[1], a[2], 0>>, "c_apb1")

\* backup-domain registers take writes only while DBP is set
WriteCSR(v) == rcc' = [rcc EXCEPT !.csr = IF pwr.dbp THEN v ELSE rcc.csr]

\* the RTC registers after a backup-domain reset
ISR_RESET == [ISR_NONE EXCEPT !.wutwf = TRUE]

PRER_RESET == [s |-> 255, a |-> 127]

\* unlock: rcc.apb1enr.write(|w| w.pwren().set_bit())
CtorEnablePwr ==
    /\ pc = "c_apb1"
    /\ rcc' = [rcc EXCEPT !.apb1enr = {"pwr"}] /\ Logged("wr:APB1ENR")
    /\ Goto("c_dbp")
    /\ UNCHANGED <<loc, wpr, isr, cr, tr, dr, prer, wutr, exti, pwr>>

\* unlock: pwr.cr.modify(|_, w| w.dbp().set_bit()); PWR is clocked by PWREN
CtorSetDbp ==
    /\ pc = "c_dbp"
    /\ pwr' = [pwr EXCEPT !.dbp = IF "pwr" \in rcc.apb1enr THEN TRUE ELSE pwr.dbp]
    /\ Logged("wr:DBP")
    /\ Goto("c_rdy")
    /\ UNCHANGED <<loc, wpr, isr, cr, tr, dr, prer, wutr, exti, rcc>>

OscReady(o) == IF o \in LseCtors THEN rcc.csr.lserdy ELSE rcc.csr.lsirdy

\* if rcc.csr.read().lserdy().bit_is_clear() { self.enable_lse(..) }  (lsirdy for LSI)
CtorCheckReady_AlwaysReset ==
    /\ pc = "c_rdy"
    /\ Logged(IF OscReady(op) THEN "rdy:set" ELSE "rdy:clear")
    /\ Goto("c_rst1")
    /\ UNCHANGED <<loc, hw>>

CtorCheckReady ==
    /\ pc = "c_rdy"
    /\ Logged(IF OscReady(op) THEN "rdy:set" ELSE "rdy:clear")
    /\ Goto(IF OscReady(op) THEN "c_sel" ELSE "c_rst1")
    /\ UNCHANGED <<loc, hw>>

\* backup_reset: bb::set(&rcc.csr, 16); the domain's registers go to reset
BackupResetSet ==
    /\ pc = "c_rst1"
    /\ Logged("wr:BDRST=1")
    /\ IF pwr.dbp
       THEN /\ rcc' = [rcc EXCEPT !.csr = [rcc.csr EXCEPT !.bdrst = TRUE, !.lseon = FALSE,
                                            !.lserdy = FALSE, !.lsebyp = FALSE,
                                            !.rtcsel = 0, !.rtcen = FALSE]]
            /\ wpr' = [key |-> LOCK, open |-> FALSE]
            /\ isr' = ISR_RESET /\ cr' = CR_RESET /\ tr' = TR_RESET /\ dr' = DR_RESET
            /\ prer' = PRER_RESET /\ wutr' = U16 - 1
       ELSE UNCHANGED <<rcc, wpr, isr, cr, tr, dr, prer, wutr>>
    /\ Goto("c_rst2")
    /\ UNCHANGED <<loc, exti, pwr>>

\* backup_reset: bb::clear(&rcc.csr, 16)
BackupResetClear ==
    /\ pc = "c_rst2"
    /\ WriteCSR([rcc.csr EXCEPT !.bdrst = FALSE]) /\ Logged("wr:BDRST=0")
    /\ Goto("c_on")
    /\ UNCHANGED <<loc, wpr, isr, cr, tr, dr, prer, wutr, exti, pwr>>

\* enable_lse: bb::set(&rcc.csr, 8); enable_lsi: rcc.csr.modify(lsion set)
CtorOscOn ==
    /\ pc = "c_on"
    /\ IF op \in LseCtors
       THEN WriteCSR([rcc.csr EXCEPT !.lseon = TRUE])
       ELSE rcc' = [rcc EXCEPT !.csr = [rcc.csr EXCEPT !.lsion = TRUE]]
    /\ Logged("wr:OSCON")
    /\ Goto(IF op \in LseCtors THEN "c_byp" ELSE "c_wait")
    /\ UNCHANGED <<loc, wpr, isr, cr, tr, dr, prer, wutr, exti, pwr>>

\* enable_lse: Bypass => bb::set(&rcc.csr, 10), Oscillator => bb::clear(&rcc.csr, 10)
CtorBypass_AlwaysSet ==
    /\ pc = "c_byp"
    /\ WriteCSR([rcc.csr EXCEPT !.lsebyp = TRUE])
    /\ Logged("wr:LSEBYP=1")
    /\ Goto("c_wait")
    /\ UNCHANGED <<loc, wpr, isr, cr, tr, dr, prer, wutr, exti, pwr>>

CtorBypass ==
    /\ pc = "c_byp"
    /\ WriteCSR([rcc.csr EXCEPT !.lsebyp = (arg[3] = 1)])
    /\ Logged(IF arg[3] = 1 THEN "wr:LSEBYP=1" ELSE "wr:LSEBYP=0")
    /\ Goto("c_wait")
    /\ UNCHANGED <<loc, wpr, isr, cr, tr, dr, prer, wutr, exti, pwr>>

\* while rcc.csr.read().lserdy().bit_is_clear() {}  (lsirdy for LSI)
CtorWaitReady ==
    /\ pc = "c_wait"
    /\ OscReady(op)
    /\ Logged("rdy:seen")
    /\ Goto("c_sel")
    /\ UNCHANGED <<loc, hw>>

\* rcc.csr.modify(|_, w| w.rtcsel().bits(1))  (2 for LSI)
CtorSelect ==
    /\ pc = "c_sel"
    /\ WriteCSR([rcc.csr EXCEPT !.rtcsel = IF op \in LseCtors THEN 1 ELSE 2])
    /\ Logged("wr:RTCSEL")
    /\ Goto("c_en")
    /\ UNCHANGED <<loc, wpr, isr, cr, tr, dr, prer, wutr, exti, pwr>>

\* enable: bb::set(&rcc.csr, 22); the init-mode transaction follows
CtorEnable ==
    /\ pc = "c_en"
    /\ WriteCSR([rcc.csr EXCEPT !.rtcen = TRUE]) /\ Logged("wr:RTCEN")
    /\ Goto("m_key1")
    /\ UNCHANGED <<loc, wpr, isr, cr, tr, dr, prer, wutr, exti, pwr>>

\* the oscillators start once switched on
HwLseReady ==
    /\ rcc.csr.lseon /\ ~rcc.csr.lserdy
    /\ rcc' = [rcc EXCEPT !.csr = [rcc.csr EXCEPT !.lserdy = TRUE]]
    /\ UNCHANGED <<pc, op, arg, ret, loc, log, stamp, wpr, isr, cr, tr, dr, prer, wutr, exti, pwr>>

HwLsiReady ==
    /\ rcc.csr.lsion /\ ~rcc.csr.lsirdy
    /\ rcc' = [rcc EXCEPT !.csr = [rcc.csr EXCEPT !.lsirdy = TRUE]]
    /\ UNCHANGED <<pc, op, arg, ret, loc, log, stamp, wpr, isr, cr, tr, dr, prer, wutr, exti, pwr>>

(***************************************************************************)
(* The wakeup timer (rtc.rs 235-260, 292-298, 324-336).                    *)
(***************************************************************************)
enable_wakeup(S) == \E interval \in S : Begin("enable_wakeup", <<interval>>, "w_key1")

disable_wakeup == Begin("disable_wakeup", <<>>, "w_key1")

wakeup_timer(S) == \E val \in S : Begin("wakeup_timer", <<val>>, "w_key1")

\* self.regs.wpr.write(0xCA)
WakeKey1 ==
    /\ pc = "w_key1"
    /\ WriteWPR(KEY1) /\ Logged("wpr:CA")
    /\ Goto("w_key2")
    /\ UNCHANGED <<loc, isr, cr, tr, dr, prer, wutr, exti, pwr, rcc>>

\* self.regs.wpr.write(0x53)
WakeKey2 ==
    /\ pc = "w_key2"
    /\ WriteWPR(KEY2) /\ Logged("wpr:53")
    /\ Goto(IF op = "wakeup_timer" THEN "w_clr_r" ELSE "w_off")
    /\ UNCHANGED <<loc, isr, cr, tr, dr, prer, wutr, exti, pwr, rcc>>

\* self.regs.cr.modify(|_, w| w.wute().clear_bit())
WakeTimerOff ==
    /\ pc = "w_off"
    /\ WriteCR([cr EXCEPT !.wute = FALSE]) /\ Logged("wute:clear")
    /\ Goto("w_clr_r")
    /\ UNCHANGED <<loc, wpr, isr, tr, dr, prer, wutr, exti, pwr, rcc>>

\* self.regs.isr.modify(|_, w| w.wutf().clear_bit()): the read
WakeClearRead ==
    /\ pc = "w_clr_r"
    /\ loc' = [loc EXCEPT !.isr = isr]
    /\ Goto("w_clr_w")
    /\ UNCHANGED <<log, hw>>

\* .. and the write; disable_wakeup then locks, the others poll
WakeClearWrite ==
    /\ pc = "w_clr_w"
    /\ WriteISR([loc.isr EXCEPT !.wutf = FALSE]) /\ Logged("wutf:clear")
    /\ Goto(IF op = "disable_wakeup" THEN "w_lock" ELSE "w_wait")
    /\ UNCHANGED <<loc, wpr, cr, tr, dr, prer, wutr, exti, pwr, rcc>>

\* enable_wakeup: while self.regs.isr.read().wutwf().bit_is_clear() {}
\* wakeup_timer:  while self.regs.isr.read().wutf().bit_is_set() {}
WakeWait_NoPoll ==
    /\ pc = "w_wait"
    /\ IF op = "enable_wakeup"
       THEN Logged("wutwf:seen") /\ Goto("w_sel")
       ELSE ~isr.wutf /\ Logged("wutf:gone") /\ Goto("w_load")
    /\ UNCHANGED <<loc, hw>>

WakeWait ==
    /\ pc = "w_wait"
    /\ IF op = "enable_wakeup"
       THEN isr.wutwf /\ Logged("wutwf:seen") /\ Goto("w_sel")
       ELSE ~isr.wutf /\ Logged("wutf:gone") /\ Goto("w_load")
    /\ UNCHANGED <<loc, hw>>

\* if interval > 1 << 16 { wucksel 0b110 } else { wucksel 0b100 }
wakeup_select_OffByOne(interval) == IF interval >= U16 THEN WUCK_SPRE_OFFSET ELSE WUCK_SPRE

wakeup_select(interval) == IF interval > U16 THEN WUCK_SPRE_OFFSET ELSE WUCK_SPRE

\* u16(interval - (1 << 16) - 1) or u16(interval - 1): the subtraction and the
\* conversion are checked, so a difference outside 0..65535 is a panic (an
\* unchecked subtraction wraps 0 - 1 to 2^32 - 1, which u16(..) refuses too)
wakeup_reload_Truncating(interval) ==
    LET v == IF interval > U16 THEN interval - U16 - 1 ELSE interval - 1
    IN [ok |-> TRUE, wut |-> v % U16]

wakeup_reload(interval) ==
    LET v == IF interval > U16 THEN interval - U16 - 1 ELSE interval - 1
    IN [ok |-> v >= 0 /\ v < U16, wut |-> v % U16]

\* self.regs.cr.modify(|_, w| w.wucksel().bits(..))
WakeSelect ==
    /\ pc = "w_sel"
    /\ WriteCR([cr EXCEPT !.wucksel = wakeup_select(arg[1])]) /\ Logged("wr:WUCKSEL")
    /\ Goto("w_load")
    /\ UNCHANGED <<loc, wpr, isr, tr, dr, prer, wutr, exti, pwr, rcc>>

\* enable_wakeup: .expect(..), then self.regs.wutr.write(|w| w.wut().bits(interval))
\* wakeup_timer:  self.regs.wutr.write(|w| w.wut().bits(val as u16))
WakeLoad ==
    /\ pc = "w_load"
    /\ LET r == IF op = "enable_wakeup" THEN wakeup_reload(arg[1])
                ELSE [ok |-> TRUE, wut |-> arg[1] % U16]
       IN IF r.ok
          THEN WriteWUTR(r.wut) /\ Logged("wr:WUTR") /\ Goto("w_on") /\ UNCHANGED loc
          ELSE Panic /\ UNCHANGED <<wutr, log>>
    /\ UNCHANGED <<wpr, isr, cr, tr, dr, prer, exti, pwr, rcc>>

\* enable_wakeup: self.regs.cr.modify(|_, w| w.wute().set_bit())
\* wakeup_timer:  self.regs.cr.write(|w| wucksel 0b100, wutie set, wute set)
WakeTimerOn ==
    /\ pc = "w_on"
    /\ IF op = "enable_wakeup"
       THEN WriteCR([cr EXCEPT !.wute = TRUE])
       ELSE WriteCR([CR_RESET EXCEPT !.wucksel = WUCK_SPRE, !.wutie = TRUE, !.wute = TRUE])
    /\ Logged("wute:set")
    /\ Goto("w_lock")
    /\ UNCHANGED <<loc, wpr, isr, tr, dr, prer, wutr, exti, pwr, rcc>>

\* self.regs.wpr.write(0xFF), and the operation returns
WakeLock ==
    /\ pc = "w_lock"
    /\ WriteWPR(LOCK) /\ Logged("wpr:FF")
    /\ Return(Result("Ok"))
    /\ UNCHANGED <<isr, cr, tr, dr, prer, wutr, exti, pwr, rcc>>

\* the write-allowed flag follows the wake timer being switched off and on
HwWutwfSet ==
    /\ ~cr.wute /\ ~isr.wutwf
    /\ isr' = [isr EXCEPT !.wutwf = TRUE]
    /\ UNCHANGED <<pc, op, arg, ret, loc, log, stamp, wpr, cr, tr, dr, prer, wutr, exti, pwr, rcc>>

HwWutwfClear ==
    /\ cr.wute /\ isr.wutwf
    /\ isr' = [isr EXCEPT !.wutwf = FALSE]
    /\ UNCHANGED <<pc, op, arg, ret, loc, log, stamp, wpr, cr, tr, dr, prer, wutr, exti, pwr, rcc>>

(***************************************************************************)
(* Events (rtc.rs 17-22, 264-290, 300-322).                                *)
(***************************************************************************)
Events == {"AlarmA", "AlarmB", "Wakeup", "Timestamp"}

\* the interrupt line, the status flag and the enable bit of an event
Line_AlarmBOwn(event) ==
    CASE event = "AlarmA" -> LINE_ALARM
      [] event = "AlarmB" -> LINE_ALARM + 1
      [] event = "Wakeup" -> LINE_WAKEUP
      [] event = "Timestamp" -> LINE_TIMESTAMP

Line(event) ==
    CASE event = "AlarmA" -> LINE_ALARM
      [] event = "AlarmB" -> LINE_ALARM
      [] event = "Wakeup" -> LINE_WAKEUP
      [] event = "Timestamp" -> LINE_TIMESTAMP

\* the status flag unpend(event) clears
Flag(event) ==
    CASE event = "AlarmA" -> "alraf"
      [] event = "AlarmB" -> "alrbf"
      [] event = "Wakeup" -> "wutf"
      [] event = "Timestamp" -> "tsf"

Enable(event) ==
    CASE event = "AlarmA" -> "alraie"
      [] event = "AlarmB" -> "alrbie"
      [] event = "Wakeup" -> "wutie"
      [] event = "Timestamp" -> "tsie"

\* bb::set(&reg, bit): the one bit of the register is set, atomically
bb_set(bits, bit) == bits \cup {bit}

listen(S) == \E event \in S : Begin("listen", <<event>>, "l_key1")

unpend(S) == \E event \in S : Begin("unpend", <<event>>, "u_cwuf")

\* self.regs.wpr.write(0xCA)
ListenKey1 ==
    /\ pc = "l_key1"
    /\ WriteWPR(KEY1) /\ Logged("wpr:CA")
    /\ Goto("l_key2")
    /\ UNCHANGED <<loc, isr, cr, tr, dr, prer, wutr, exti, pwr, rcc>>

\* self.regs.wpr.write(0x53)
ListenKey2 ==
    /\ pc = "l_key2"
    /\ WriteWPR(KEY2) /\ Logged("wpr:53")
    /\ Goto("l_rtsr")
    /\ UNCHANGED <<loc, isr, cr, tr, dr, prer, wutr, exti, pwr, rcc>>

\* bb::set(&exti.rtsr, line)
ListenRising ==
    /\ pc = "l_rtsr"
    /\ exti' = [exti EXCEPT !.rtsr = bb_set(exti.rtsr, Line(arg[1]))] /\ Logged("wr:RTSR")
    /\ Goto("l_imr")
    /\ UNCHANGED <<loc, wpr, isr, cr, tr, dr, prer, wutr, pwr, rcc>>

\* bb::set(&exti.imr, line)
ListenUnmask ==
    /\ pc = "l_imr"
    /\ exti' = [exti EXCEPT !.imr = bb_set(exti.imr, Line(arg[1]))] /\ Logged("wr:IMR")
    /\ Goto("l_cr")
    /\ UNCHANGED <<loc, wpr, isr, cr, tr, dr, prer, wutr, pwr, rcc>>

\* self.regs.cr.modify(|_, w| w.alraie().set_bit())  (alrbie, wutie, tsie)
ListenEnable ==
    /\ pc = "l_cr"
    /\ WriteCR([cr EXCEPT ![Enable(arg[1])] = TRUE]) /\ Logged("wr:CR")
    /\ Goto("l_lock")
    /\ UNCHANGED <<loc, wpr, isr, tr, dr, prer, wutr, exti, pwr, rcc>>

\* self.regs.wpr.write(0xFF), and listen returns
ListenLock_NoLock ==
    /\ pc = "l_lock"
    /\ Return(Result("Ok"))
    /\ UNCHANGED <<log, hw>>

ListenLock ==
    /\ pc = "l_lock"
    /\ WriteWPR(LOCK) /\ Logged("wpr:FF")
    /\ Return(Result("Ok"))
    /\ UNCHANGED <<isr, cr, tr, dr, prer, wutr, exti, pwr, rcc>>

\* pwr.cr.modify(|_, w| w.cwuf().set_bit()): the wake-up flag is cleared
UnpendWakeFlag ==
    /\ pc = "u_cwuf"
    /\ pwr' = [pwr EXCEPT !.wuf = FALSE] /\ Logged("wr:CWUF")
    /\ Goto("u_isr_r")
    /\ UNCHANGED <<loc, wpr, isr, cr, tr, dr, prer, wutr, exti, rcc>>

\* self.regs.isr.modify(|_, w| w.alraf().clear_bit()): the read  (alrbf, wutf, tsf)
UnpendRead ==
    /\ pc = "u_isr_r"
    /\ loc' = [loc EXCEPT !.isr = isr]
    /\ Goto("u_isr_w")
    /\ UNCHANGED <<log, hw>>

\* what unpend writes back to ISR: the value read with the event's flag cleared
unpend_isr_AllFlags(r, event) == ISR_NONE

unpend_isr(r, event) == [r EXCEPT ![Flag(event)] = FALSE]

\* .. and the write
UnpendWrite ==
    /\ pc = "u_isr_w"
    /\ WriteISR(unpend_isr(loc.isr, arg[1]))
    /\ Logged("wr:ISR")
    /\ Goto("u_pr")
    /\ UNCHANGED <<loc, wpr, cr, tr, dr, prer, wutr, exti, pwr, rcc>>

\* bb::set(&exti.pr, line): writing 1 clears the line's pending bit; unpend returns
UnpendLine ==
    /\ pc = "u_pr"
    /\ exti' = [exti EXCEPT !.pr = exti.pr \ bb_set({}, Line(arg[1]))] /\ Logged("wr:PR")
    /\ Return(Result("Ok"))
    /\ UNCHANGED <<wpr, isr, cr, tr, dr, prer, wutr, pwr, rcc>>

\* the peripheral raises an event: its status flag, and, when the event is
\* enabled and its line unmasked and rising-triggered, the line's pending bit
\* and the power controller's wake-up flag.  The wake timer only fires while on.
HwRaise(S) ==
    \E event \in S :
        /\ ~isr[Flag(event)]
        /\ event = "Wakeup" => cr.wute
        /\ isr' = [isr EXCEPT ![Flag(event)] = TRUE]
        /\ LET fires == cr[Enable(event)] /\ Line(event) \in (exti.imr \cap exti.rtsr) IN
              /\ exti' = [exti EXCEPT !.pr = IF fires THEN exti.pr \cup {Line(event)} ELSE exti.pr]
              /\ pwr' = [pwr EXCEPT !.wuf = fires \/ pwr.wuf]
        /\ UNCHANGED <<pc, op, arg, ret, loc, log, stamp, wpr, cr, tr, dr, prer, wutr, rcc>>

(***************************************************************************)
(* ExtiExt (exti.rs 41-183).  The owner's operations are sequences of      *)
(* read-modify-writes; pend, unpend and is_pending are single accesses     *)
(* that an interrupt handler may make between any two of the owner's       *)
(* steps.  An operation's argument is <<line, edge, port>>.                *)
(***************************************************************************)
TriggerEdge == {"Rising", "Falling", "Both"}

\* the trigger and mask bits, remembered in stamp when an operation is called
Triggers == <<exti.rtsr, exti.ftsr, exti.imr>>

ExtiBegin(o, a, first) ==
    /\ pc = "idle"
    /\ pc' = first /\ op' = o /\ arg' = a
    /\ ret' = Result("none") /\ loc' = NoLoc /\ log' = <<>>
    /\ stamp' = Triggers
    /\ UNCHANGED hw

\* match edge { Rising => rtsr.., Falling => ftsr.., Both => rtsr.. then ftsr.. }
FirstTrigger(edge) == IF edge = "Falling" THEN "x_ft_r" ELSE "x_rt_r"

listen_gpio(P, L, E) ==
    \E port \in P, line \in L, edge \in E :
        ExtiBegin("listen_gpio", <<line, edge, port>>,
                  IF line <= 15 THEN "x_cr_r" ELSE FirstTrigger(edge))

listen_configurable(L, E) ==
    \E line \in L, edge \in E :
        ExtiBegin("listen_configurable", <<line, edge, 0>>, FirstTrigger(edge))

unlisten(L) == \E line \in L : ExtiBegin("unlisten", <<line, "none", 0>>, "x_im_r")

\* a register read of a modify: r.bits()
ExtiRead(at, reg, next) ==
    /\ pc = at
    /\ loc' = [loc EXCEPT !.bits = exti[reg]]
    /\ Goto(next)
    /\ UNCHANGED <<log, hw>>

\* the value a modify writes back: r.bits() | bm, for unlisten r.bits() & !bm
Modified(bits, line) == IF op = "unlisten" THEN bits \ {line} ELSE bits \cup {line}

\* syscfg.exticrN.modify(|_, w| w.extiN().bits(port_bm))
GpioSelectRead == ExtiRead("x_cr_r", "exticr", "x_cr_w")

GpioSelectWrite ==
    /\ pc = "x_cr_w"
    /\ exti' = [exti EXCEPT !.exticr = {s \in loc.bits : s[1] # arg[1]}
                                        \cup (IF arg[3] = 0 THEN {} ELSE {<<arg[1], arg[3]>>})]
    /\ Goto(FirstTrigger(arg[2]))
    /\ UNCHANGED <<loc, log, wpr, isr, cr, tr, dr, prer, wutr, pwr, rcc>>

\* self.raw.rtsr.modify(..)
RisingRead == ExtiRead("x_rt_r", "rtsr", "x_rt_w")

RisingWrite ==
    /\ pc = "x_rt_w"
    /\ exti' = [exti EXCEPT !.rtsr = Modified(loc.bits, arg[1])]
    /\ Goto(IF op = "unlisten" \/ arg[2] = "Both" THEN "x_ft_r" ELSE "x_im_r")
    /\ UNCHANGED <<loc, log, wpr, isr, cr, tr, dr, prer, wutr, pwr, rcc>>

\* self.raw.ftsr.modify(..); it is unlisten's last access
FallingRead == ExtiRead("x_ft_r", "ftsr", "x_ft_w")

FallingWrite ==
    /\ pc = "x_ft_w"
    /\ exti' = [exti EXCEPT !.ftsr = Modified(loc.bits, arg[1])]
    /\ IF op = "unlisten"
       THEN pc' = "idle" /\ ret' = Result("Ok") /\ loc' = NoLoc /\ UNCHANGED <<op, arg, stamp>>
       ELSE Goto("x_im_r") /\ UNCHANGED loc
    /\ UNCHANGED <<log, wpr, isr, cr, tr, dr, prer, wutr, pwr, rcc>>

\* self.raw.imr.modify(..); it is unlisten's first access and a listen's last
MaskRead == ExtiRead("x_im_r", "imr", "x_im_w")

MaskWrite ==
    /\ pc = "x_im_w"
    /\ exti' = [exti EXCEPT !.imr = Modified(loc.bits, arg[1])]
    /\ IF op = "unlisten"
       THEN Goto("x_rt_r") /\ UNCHANGED loc
       ELSE pc' = "idle" /\ ret' = Result("Ok") /\ loc' = NoLoc /\ UNCHANGED <<op, arg, stamp>>
    /\ UNCHANGED <<log, wpr, isr, cr, tr, dr, prer, wutr, pwr, rcc>>

\* the lines whose bit a single store of 1 << line writes as 1
swier_write(line) == {line}

pr_write_Modify(line) == exti.pr \cup {line}

pr_write(line) == {line}

\* pend: swier.write(|w| w.bits(1 << line)); an unmasked line becomes pending
pend(L) ==
    \E line \in L :
        /\ exti' = [exti EXCEPT !.swier = exti.swier \cup swier_write(line),
                                !.pr = exti.pr \cup (swier_write(line) \cap exti.imr)]
        /\ UNCHANGED <<pc, op, arg, ret, loc, log, stamp, wpr, isr, cr, tr, dr, prer, wutr, pwr, rcc>>

\* unpend: pr.write(|w| w.bits(1 << line)); bits written 1 are cleared, and
\* with them the software-interrupt bits of those lines
exti_unpend(L) ==
    \E line \in L :
        /\ exti' = [exti EXCEPT !.pr = exti.pr \ pr_write(line),
                                !.swier = exti.swier \ pr_write(line)]
        /\ UNCHANGED <<pc, op, arg, ret, loc, log, stamp, wpr, isr, cr, tr, dr, prer, wutr, pwr, rcc>>

\* is_pending: pr.read().bits() & bm != 0
IsPending(line) == line \in exti.pr

is_pending(L) == \E line \in L : IsPending(line) \in BOOLEAN /\ UNCHANGED vars

\* an edge on an unmasked line with that trigger selected makes it pending
HwEdge(L) ==
    \E line \in L, edge \in {"rtsr", "ftsr"} :
        /\ line \in exti.imr /\ line \in exti[edge] /\ line \notin exti.pr
        /\ exti' = [exti EXCEPT !.pr = exti.pr \cup {line}]
        /\ UNCHANGED <<pc, op, arg, ret, loc, log, stamp, wpr, isr, cr, tr, dr, prer, wutr, pwr, rcc>>

(***************************************************************************)
(* The state after construction by Rtc::new (rtc.rs 62-117): LSE running   *)
(* and selected, 24-hour format, prescalers 255/127, write protection      *)
(* locked.  `regs` is a public field (rtc.rs 32), so the application may   *)
(* have left the peripheral in init mode: INIT and INITF are both set or   *)
(* both clear.                                                             *)
(***************************************************************************)
ISR_RUN == [ISR_NONE EXCEPT !.rsf = TRUE, !.wutwf = TRUE]

ISR_INIT == [ISR_NONE EXCEPT !.init = TRUE, !.initf = TRUE, !.wutwf = TRUE]

\* each register as the set of lines whose bit is set; exticr is SYSCFG's
\* line-to-port selection, as the set of <<line, port>> pairs other than port 0
EXTI_RESET == [rtsr |-> {}, ftsr |-> {}, imr |-> {}, pr |-> {}, swier |-> {}, exticr |-> {}]

CSR_LSE == [lsion |-> FALSE, lsirdy |-> FALSE, lseon |-> TRUE, lserdy |-> TRUE,
            lsebyp |-> FALSE, bdrst |-> FALSE, rtcsel |-> 1, rtcen |-> TRUE]

\* the calendar at its upper boundary: Sunday 2069-12-31 23:59:59
TR_LAST == tr_write(23, 59, 59)

DR_LAST == dr_weekday(dr_write(LAST_YEAR, 12, 31), 7)

Constructed(t, d, i) ==
    /\ pc = "idle" /\ op = "new" /\ arg = <<255, 127, 0>> /\ ret = Result("Ok")
    /\ loc = NoLoc /\ log = <<>> /\ stamp = <<>>
    /\ wpr = [key |-> LOCK, open |-> FALSE]
    /\ isr = i
    /\ cr = CR_RESET
    /\ tr = t /\ dr = d
    /\ prer = PRER_RESET
    /\ wutr = U16 - 1
    /\ exti = EXTI_RESET
    /\ pwr = [dbp |-> TRUE, wuf |-> FALSE]
    /\ rcc = [apb1enr |-> {"pwr"}, csr |-> CSR_LSE]

(***************************************************************************)
(* SpecCal: any sequence of calendar operations, arguments at the          *)
(* boundaries of each domain and just outside them.                        *)
(***************************************************************************)
Outside(lo, hi) == {v \in (lo - Over)..(hi + Over) : v >= 0 /\ (v < lo \/ v > hi)}

SecondsEdge == {0, 59} \cup Outside(0, 59)
HoursEdge == {0, 23} \cup Outside(0, 23)
WeekdayEdge == {1, 7} \cup Outside(1, 7)
DayEdge == {1, 31} \cup Outside(1, 31)
MonthEdge == {1, 12} \cup Outside(1, 12)
YearEdge == {EPOCH, LAST_YEAR} \cup Outside(EPOCH, LAST_YEAR)
DateEdge == {<<EPOCH, 1, 1>>, <<LAST_YEAR, 12, 31>>, <<EPOCH - 1, 12, 31>>, <<LAST_YEAR + 1, 1, 1>>}
TimeEdge == {<<0, 0, 0>>, <<23, 59, 59>>}
DateTimeEdge == {<<EPOCH, 1, 1, 0, 0, 0>>, <<LAST_YEAR, 12, 31, 23, 59, 59>>,
                 <<EPOCH - 1, 12, 31, 23, 59, 59>>, <<LAST_YEAR + 1, 1, 1, 0, 0, 0>>}
PrescalerEdge == {<<255, 127>>, <<249, 127>>}

InitCal ==
    \E i \in {ISR_RUN, ISR_INIT} :
        \/ Constructed(TR_RESET, DR_RESET, i)
        \/ Constructed(TR_LAST, DR_LAST, i)

Transaction ==
    \/ ModKey1 \/ ModKey2 \/ ModReadInitf \/ ModInitRead \/ ModInitWrite \/ ModWaitInitf
    \/ ModBody \/ ModBody2 \/ ModExitRead \/ ModExitWrite \/ ModWaitExit \/ ModLock

Reading == GetWaitRsf \/ GetReadTR \/ GetReadDR \/ GetClearRead \/ GetClearWrite \/ GetReturn

Peripheral == HwInitEnter \/ HwInitExit \/ HwSync

\* the steps of a constructor that finds its oscillator running
Rebuild == CtorEnablePwr \/ CtorSetDbp \/ CtorCheckReady \/ CtorSelect \/ CtorEnable

NextCal ==
    \/ set_seconds(SecondsEdge) \/ set_minutes(SecondsEdge) \/ set_hours(HoursEdge)
    \/ set_weekday(WeekdayEdge) \/ set_day(DayEdge) \/ set_month(MonthEdge)
    \/ set_year(YearEdge) \/ set_date(DateEdge) \/ set_time(TimeEdge)
    \/ set_datetime(DateTimeEdge) \/ set_prescalers(PrescalerEdge) \/ get_datetime
    \/ new \/ Rebuild
    \/ Transaction \/ Reading \/ Peripheral

SpecCal == InitCal /\ [][NextCal]_vars


(***************************************************************************)
(* SpecBcd: the codec on its own.  bcd2_encode is applied to every word    *)
(* 0..MaxWord and bcd2_decode to the digits it returned.                   *)
(***************************************************************************)
InitBcd ==
    /\ \E word \in 0..MaxWord : arg = <<word>>
    /\ pc = "bcd" /\ op = "bcd2_encode" /\ ret = Result("none")
    /\ loc = NoLoc /\ log = <<>> /\ stamp = <<>>
    /\ wpr = [key |-> LOCK, open |-> FALSE]
    /\ isr = ISR_RUN /\ cr = CR_RESET /\ tr = TR_RESET /\ dr = DR_RESET
    /\ prer = PRER_RESET /\ wutr = U16 - 1 /\ exti = EXTI_RESET
    /\ pwr = [dbp |-> TRUE, wuf |-> FALSE]
    /\ rcc = [apb1enr |-> {"pwr"}, csr |-> CSR_LSE]

BcdEncode ==
    /\ pc = "bcd"
    /\ LET e == bcd2_encode(arg[1]) IN
          ret' = IF e.ok THEN [tag |-> "Ok", v |-> <<e.l, e.r>>] ELSE Result("Err")
    /\ pc' = "bcd_encoded"
    /\ UNCHANGED <<op, arg, loc, log, stamp, hw>>

BcdDecode ==
    /\ pc = "bcd_encoded" /\ ret.tag = "Ok"
    /\ ret' = [tag |-> "Decoded", v |-> <<bcd2_decode(ret.v[1], ret.v[2])>>]
    /\ pc' = "bcd_decoded"
    /\ UNCHANGED <<op, arg, loc, log, stamp, hw>>

NextBcd == BcdEncode \/ BcdDecode

SpecBcd == InitBcd /\ [][NextBcd]_vars

(***************************************************************************)
(* SpecOnce: one setter call on a constructed RTC, with every value of the *)
(* argument's type around and inside its domain, followed by reads.        *)
(***************************************************************************)
AnyU8 == 0..(U8 - 1)

AnyYear == {0, U16 - 1} \cup ((EPOCH - Over)..(LAST_YEAR + Over))

\* valid calendar dates and times, years also outside 1970..2069
SomeYears == {-1, EPOCH - 1, EPOCH, 1999, 2000, 2024, LAST_YEAR, LAST_YEAR + 1}

AnyDate ==
    {d \in SomeYears \X (1..12) \X {1, 28, 29, 30, 31} : ValidDate(d[1], d[2], d[3])}

AnyTime == {0, 12, 23} \X {0, 59} \X {0, 59}

AnyDateTime == {d \o t : d \in AnyDate, t \in {<<0, 0, 0>>, <<12, 34, 56>>, <<23, 59, 59>>}}

FirstCall == pc = "idle" /\ op = "new"

NextOnce ==
    \/ FirstCall /\ set_seconds(AnyU8)
    \/ FirstCall /\ set_minutes(AnyU8)
    \/ FirstCall /\ set_hours(AnyU8)
    \/ FirstCall /\ set_weekday(AnyU8)
    \/ FirstCall /\ set_day(AnyU8)
    \/ FirstCall /\ set_month(AnyU8)
    \/ FirstCall /\ set_year(AnyYear)
    \/ FirstCall /\ set_date(AnyDate)
    \/ FirstCall /\ set_time(AnyTime)
    \/ FirstCall /\ set_datetime(AnyDateTime)
    \/ get_datetime
    \/ Transaction \/ Reading \/ Peripheral

SpecOnce == InitCal /\ [][NextOnce]_vars


(***************************************************************************)
(* SpecWake: any sequence of wakeup-timer operations on a constructed RTC, *)
(* intervals around 0, 2^16, 2^17 and 3 * 2^16; the wake timer fires while *)
(* it is on.                                                               *)
(***************************************************************************)
Around(n) == {v \in (n - Slack)..(n + Slack) : v >= 0}

WakeIntervals == Around(0) \cup Around(U16) \cup Around(2 * U16) \cup Around(3 * U16)

WakeValues == {0, 1, U16 - 1, U16, U16 + 1}

InitWake == Constructed(TR_RESET, DR_RESET, ISR_RUN)

WakeSteps ==
    \/ WakeKey1 \/ WakeKey2 \/ WakeTimerOff \/ WakeClearRead \/ WakeClearWrite
    \/ WakeWait \/ WakeSelect \/ WakeLoad \/ WakeTimerOn \/ WakeLock

NextWake ==
    \/ enable_wakeup(WakeIntervals) \/ disable_wakeup \/ wakeup_timer(WakeValues)
    \/ WakeSteps
    \/ HwWutwfSet \/ HwWutwfClear \/ HwRaise({"Wakeup"})

SpecWake == InitWake /\ [][NextWake]_vars

(***************************************************************************)
(* SpecEvent: any sequence of listen and unpend calls while the peripheral *)
(* raises events.  Initially the wake timer runs (enable_wakeup(1) has     *)
(* returned) and the application listens on EXTI line 0 by other means.    *)
(***************************************************************************)
InitEvent ==
    /\ pc = "idle" /\ op = "enable_wakeup" /\ arg = <<1>> /\ ret = Result("Ok")
    /\ loc = NoLoc /\ log = <<>> /\ stamp = <<>>
    /\ wpr = [key |-> LOCK, open |-> FALSE]
    /\ isr = [ISR_NONE EXCEPT !.rsf = TRUE]
    /\ cr = [CR_RESET EXCEPT !.wute = TRUE, !.wucksel = WUCK_SPRE]
    /\ tr = TR_RESET /\ dr = DR_RESET /\ prer = PRER_RESET
    /\ wutr = 0
    /\ exti = [EXTI_RESET EXCEPT !.rtsr = {0}, !.ftsr = {0}, !.imr = {0}]
    /\ pwr = [dbp |-> TRUE, wuf |-> FALSE]
    /\ rcc = [apb1enr |-> {"pwr"}, csr |-> CSR_LSE]

ListenSteps == ListenKey1 \/ ListenKey2 \/ ListenRising \/ ListenUnmask \/ ListenEnable \/ ListenLock

UnpendSteps == UnpendWakeFlag \/ UnpendRead \/ UnpendWrite \/ UnpendLine

NextEvent ==
    \/ listen(Events) \/ unpend(Events)
    \/ ListenSteps \/ UnpendSteps
    \/ HwRaise(Events)

SpecEvent == InitEvent /\ [][NextEvent]_vars

(***************************************************************************)
(* SpecDriver: any sequence of the public operations on a constructed RTC  *)
(* (wakeup timer, events, setters, reads), with the peripheral's steps.    *)
(***************************************************************************)
DriverIntervals == {0, 1, U16 + 1}

DriverValues == {U16 + 1}

DriverEvents == {"Wakeup", "AlarmA"}

DriverHours == {23, 24}

DriverTimes == {<<23, 59, 59>>}

NextDriver ==
    \/ enable_wakeup(DriverIntervals) \/ disable_wakeup \/ wakeup_timer(DriverValues)
    \/ listen(DriverEvents) \/ unpend(DriverEvents)
    \/ set_hours(DriverHours) \/ set_time(DriverTimes) \/ get_datetime
    \/ WakeSteps \/ ListenSteps \/ UnpendSteps
    \/ ModKey1 \/ ModKey2 \/ ModReadInitf \/ ModInitRead \/ ModInitWrite \/ ModWaitInitf
    \/ ModBody \/ ModExitRead \/ ModExitWrite \/ ModWaitExit \/ ModLock
    \/ Reading
    \/ HwWutwfSet \/ HwWutwfClear \/ HwRaise(DriverEvents) \/ Peripheral

SpecDriver == InitWake /\ [][NextDriver]_vars

(***************************************************************************)
(* SpecCtor: the bring-up constructors, called any number of times, from   *)
(* a cold backup domain (power-on) and from a backup domain that kept the  *)
(* calendar running on LSE across a system reset or on LSI while the core  *)
(* kept running.                                                           *)
(***************************************************************************)
CSR_COLD == [lsion |-> FALSE, lsirdy |-> FALSE, lseon |-> FALSE, lserdy |-> FALSE,
             lsebyp |-> FALSE, bdrst |-> FALSE, rtcsel |-> 0, rtcen |-> FALSE]

CSR_LSI == [CSR_COLD EXCEPT !.lsion = TRUE, !.lsirdy = TRUE, !.rtcsel = 2, !.rtcen = TRUE]

\* custom prescalers: in range, and one past the 15-bit and the 7-bit field
CtorConfigs == {<<255, 127, 0>>, <<255, 127, 1>>, <<32768, 127, 1>>, <<249, 128, 0>>}

Boot(t, d, i, csr) ==
    /\ pc = "idle" /\ op = "boot" /\ arg = <<>> /\ ret = Result("none")
    /\ loc = NoLoc /\ log = <<>> /\ stamp = <<>>
    /\ wpr = [key |-> LOCK, open |-> FALSE]
    /\ isr = i /\ cr = CR_RESET /\ tr = t /\ dr = d
    /\ prer = PRER_RESET /\ wutr = U16 - 1
    /\ exti = EXTI_RESET
    /\ pwr = [dbp |-> FALSE, wuf |-> FALSE]
    /\ rcc = [apb1enr |-> {}, csr |-> csr]

InitCtor ==
    \/ Boot(TR_RESET, DR_RESET, ISR_RESET, CSR_COLD)
    \/ Boot(TR_LAST, DR_LAST, ISR_RUN, CSR_LSE)
    \/ Boot(TR_LAST, DR_LAST, ISR_RUN, CSR_LSI)

BringUp ==
    \/ CtorEnablePwr \/ CtorSetDbp \/ CtorCheckReady \/ BackupResetSet \/ BackupResetClear
    \/ CtorOscOn \/ CtorBypass \/ CtorWaitReady \/ CtorSelect \/ CtorEnable

NextCtor ==
    \/ new \/ with_config(CtorConfigs) \/ new_lsi \/ lsi_with_config(CtorConfigs)
    \/ BringUp \/ Transaction
    \/ HwLseReady \/ HwLsiReady \/ Peripheral

SpecCtor == InitCtor /\ [][NextCtor]_vars

(***************************************************************************)
(* SpecExti: the owner of the interrupt-line wrapper calls listen_gpio,    *)
(* listen_configurable and unlisten in any order while interrupt handlers  *)
(* call pend, unpend and is_pending and edges arrive.                      *)
(***************************************************************************)
ExtiLines == {1, 17}

ExtiPorts == {0, 1}

InitExti ==
    /\ pc = "idle" /\ op = "boot" /\ arg = <<>> /\ ret = Result("none")
    /\ loc = NoLoc /\ log = <<>> /\ stamp = <<>>
    /\ wpr = [key |-> LOCK, open |-> FALSE]
    /\ isr = ISR_RESET /\ cr = CR_RESET /\ tr = TR_RESET /\ dr = DR_RESET
    /\ prer = PRER_RESET /\ wutr = U16 - 1
    /\ exti = EXTI_RESET
    /\ pwr = [dbp |-> FALSE, wuf |-> FALSE]
    /\ rcc = [apb1enr |-> {}, csr |-> CSR_COLD]

ExtiSteps ==
    \/ GpioSelectRead \/ GpioSelectWrite \/ RisingRead \/ RisingWrite
    \/ FallingRead \/ FallingWrite \/ MaskRead \/ MaskWrite

NextExti ==
    \/ listen_gpio(ExtiPorts, ExtiLines, TriggerEdge)
    \/ listen_configurable(ExtiLines, TriggerEdge)
    \/ unlisten(ExtiLines)
    \/ listen({"AlarmA"})
    \/ ExtiSteps \/ ListenSteps
    \/ pend(ExtiLines) \/ exti_unpend(ExtiLines) \/ is_pending(ExtiLines)
    \/ HwEdge(ExtiLines)

SpecExti == InitExti /\ [][NextExti]_vars

(***************************************************************************)
(* SpecLive: the operations that poll a flag, each with an argument it     *)
(* accepts, from a cold and from a constructed RTC.  The processor keeps   *)
(* executing the operation in progress (weak fairness of its steps); the   *)
(* peripheral is under no obligation.                                      *)
(***************************************************************************)
InitLive ==
    \/ Boot(TR_RESET, DR_RESET, ISR_RESET, CSR_COLD)
    \/ Constructed(TR_LAST, DR_LAST, ISR_RUN)

Driver == BringUp \/ Transaction \/ Reading \/ WakeSteps

NextLive ==
    \/ new \/ new_lsi \/ set_seconds({59}) \/ get_datetime
    \/ enable_wakeup({1}) \/ wakeup_timer({1})
    \/ Driver
    \/ HwLseReady \/ HwLsiReady \/ Peripheral
    \/ HwWutwfSet \/ HwWutwfClear \/ HwRaise({"Wakeup"})

SpecLive == InitLive /\ [][NextLive]_vars /\ WF_vars(Driver)

(***************************************************************************)
(* SpecHours: the operations that write the hours, after construction on a *)
(* cold backup domain and on one that kept a calendar in 12-hour format    *)
(* (11:59:59 PM), with the wake-timer operations, which write the control  *)
(* register, in between.                                                   *)
(***************************************************************************)
TR_PM == [tr_write(11, 59, 59) EXCEPT !.pm = TRUE]

InitHours ==
    /\ pc = "idle" /\ op = "boot" /\ arg = <<>> /\ ret = Result("none")
    /\ loc = NoLoc /\ log = <<>> /\ stamp = <<>>
    /\ wpr = [key |-> LOCK, open |-> FALSE]
    /\ prer = PRER_RESET /\ wutr = U16 - 1
    /\ exti = EXTI_RESET
    /\ pwr = [dbp |-> FALSE, wuf |-> FALSE]
    /\ \/ isr = ISR_RESET /\ cr = CR_RESET /\ tr = TR_RESET /\ dr = DR_RESET
          /\ rcc = [apb1enr |-> {}, csr |-> CSR_COLD]
       \/ isr = ISR_RUN /\ cr = [CR_RESET EXCEPT !.fmt = TRUE] /\ tr = TR_PM /\ dr = DR_LAST
          /\ rcc = [apb1enr |-> {}, csr |-> CSR_LSE]

\* the driver's methods need the value a constructor returned
Built == op # "boot"

HourOps == {"set_hours", "set_time", "set_datetime"}

NextHours ==
    \/ new
    \/ Built /\ set_hours({10})
    \/ Built /\ set_time({<<1, 2, 3>>})
    \/ Built /\ set_datetime({<<EPOCH, 1, 1, 0, 0, 0>>})
    \/ Built /\ set_seconds({59})
    \/ Built /\ wakeup_timer({1})
    \/ Built /\ enable_wakeup({1})
    \/ BringUp \/ Transaction \/ WakeSteps
    \/ HwLseReady \/ Peripheral \/ HwWutwfSet \/ HwWutwfClear

SpecHours == InitHours /\ [][NextHours]_vars

(***************************************************************************)
(* SpecDate: setters of the date fields with values inside the calendar    *)
(* rather than at its ends (a 31st, February, a leap day, the year after   *)
(* it), and get_datetime, on a constructed RTC holding 1970-01-01.         *)
(***************************************************************************)
LeapDay == <<1972, 2, 29>>

InitDate == Constructed(TR_RESET, DR_RESET, ISR_RUN)

NextDate ==
    \/ set_day({31}) \/ set_month({2}) \/ set_year({1973})
    \/ set_date({LeapDay}) \/ set_datetime({<<LAST_YEAR, 12, 31, 23, 59, 59>>})
    \/ get_datetime
    \/ Transaction \/ Reading \/ Peripheral

SpecDate == InitDate /\ [][NextDate]_vars

(***************************************************************************)
(* SpecClocks: the constructors on a system whose application switched on  *)
(* another APB1 peripheral clock (TIM2) before constructing the RTC, from  *)
(* a cold backup domain and from one that kept LSE running.                *)
(***************************************************************************)
InitClocks ==
    /\ pc = "idle" /\ op = "boot" /\ arg = <<>> /\ ret = Result("none")
    /\ loc = NoLoc /\ log = <<>> /\ stamp = <<>>
    /\ wpr = [key |-> LOCK, open |-> FALSE]
    /\ cr = CR_RESET /\ prer = PRER_RESET /\ wutr = U16 - 1
    /\ exti = EXTI_RESET
    /\ pwr = [dbp |-> FALSE, wuf |-> FALSE]
    /\ \/ isr = ISR_RESET /\ tr = TR_RESET /\ dr = DR_RESET
          /\ rcc = [apb1enr |-> {"tim2"}, csr |-> CSR_COLD]
       \/ isr = ISR_RUN /\ tr = TR_LAST /\ dr = DR_LAST
          /\ rcc = [apb1enr |-> {"tim2"}, csr |-> CSR_LSE]

SpecClocks == InitClocks /\ [][NextCtor]_vars

(***************************************************************************)
(* Properties.                                                             *)
(***************************************************************************)
Ok == Result("Ok")

Err == Result("Err")

InYears(year) == year >= 1970 /\ year <= 2069

\* the argument a is outside the domain of the setter o
OutOfDomain(o, a) ==
    \/ o \in {"set_seconds", "set_minutes"} /\ a[1] > 59
    \/ o = "set_hours" /\ a[1] > 23
    \/ o = "set_weekday" /\ (a[1] < 1 \/ a[1] > 7)
    \/ o = "set_day" /\ (a[1] < 1 \/ a[1] > 31)
    \/ o = "set_month" /\ (a[1] < 1 \/ a[1] > 12)
    \/ o \in {"set_year", "set_date", "set_datetime"} /\ ~InYears(a[1])

\* C1: a setter called with an out-of-domain value (set_date and set_datetime:
\* with a year outside 1970..2069) returns InvalidInputData in the step that
\* calls it, having accessed no register: WPR, ISR, TR, DR, PRER and every
\* other register are as they were before the call.
C1_RejectedTouchesNothing ==
    [][(op' # op /\ OutOfDomain(op', arg'))
          => (pc' = "idle" /\ ret' = Err /\ log' = <<>> /\ hw' = hw)]_vars

\* set_datetime(2070-01-01 ..) was rejected on a calendar holding 2069-12-31 23:59:59
C1_Witness ==
    /\ pc = "idle" /\ op = "set_datetime" /\ arg[1] = 2070 /\ ret = Err
    /\ tr = TR_LAST /\ dr = DR_LAST /\ wpr.key = LOCK

\* C2: once a per-field setter called with an in-domain value has returned, it
\* has returned Ok and its field of TR/DR decodes to the value passed; the year
\* is held as the two BCD digits of year - 1970, the month as a tens bit and a
\* units digit.
C2_InDomainStored ==
    pc = "idle" =>
      /\ (op = "set_seconds" /\ arg[1] <= 59) => (ret = Ok /\ decode_seconds(tr) = arg[1])
      /\ (op = "set_minutes" /\ arg[1] <= 59) => (ret = Ok /\ decode_minutes(tr) = arg[1])
      /\ (op = "set_hours" /\ arg[1] <= 23) => (ret = Ok /\ decode_hours(tr) = arg[1])
      /\ (op = "set_weekday" /\ arg[1] \in 1..7) => (ret = Ok /\ dr.wdu = arg[1])
      /\ (op = "set_day" /\ arg[1] \in 1..31) => (ret = Ok /\ decode_day(dr) = arg[1])
      /\ (op = "set_month" /\ arg[1] \in 1..12) =>
            /\ ret = Ok /\ decode_month(dr) = arg[1]
            /\ dr.mt = (arg[1] >= 10) /\ dr.mu = arg[1] % 10
      /\ (op = "set_year" /\ InYears(arg[1])) =>
            /\ ret = Ok /\ decode_year(dr) = arg[1]
            /\ dr.yt = (arg[1] - 1970) \div 10 /\ dr.yu = (arg[1] - 1970) % 10

\* set_month(12) has returned on a calendar that held January
C2_Witness ==
    /\ pc = "idle" /\ op = "set_month" /\ arg = <<12>> /\ ret = Ok
    /\ dr.mt /\ dr.mu = 2 /\ dr.du = 1

\* C3: for every n in 0..99 bcd2_encode(n) is Ok((n / 10, n % 10)) with both
\* digits in 0..9, and bcd2_decode of that pair is n.
C3_BcdRoundTrip ==
    (op = "bcd2_encode" /\ arg[1] <= 99) =>
      /\ pc = "bcd_encoded" =>
            /\ ret.tag = "Ok"
            /\ ret.v = <<arg[1] \div 10, arg[1] % 10>>
            /\ ret.v[1] \in 0..9 /\ ret.v[2] \in 0..9
      /\ pc = "bcd_decoded" => ret.v = arg

\* 99 went through encode and decode
C3_Witness == pc = "bcd_decoded" /\ arg = <<99>> /\ ret.v = <<99>>

\* C4: set_datetime on a valid date-time with its year in 1970..2069 returns Ok,
\* and a get_datetime that follows it (no calendar tick is modelled, and nothing
\* else wrote the calendar) returns the same year, month, day, hour, minute and
\* second instead of panicking.
C4_DateTimeRoundTrip ==
    /\ (pc = "idle" /\ op = "set_datetime" /\ InYears(arg[1])) => ret = Ok
    /\ (op = "get_datetime" /\ stamp # <<>>) =>
          /\ pc # "panic"
          /\ pc = "idle" => ret = [tag |-> "DateTime", v |-> stamp]

\* 2024-02-29 12:34:56 was programmed and read back
C4_Witness ==
    /\ pc = "idle" /\ op = "get_datetime"
    /\ stamp = <<2024, 2, 29, 12, 34, 56>> /\ ret.v = stamp

\* C5: enable_wakeup(interval) that has returned has selected clock mode 0b100
\* and loaded interval - 1 for every interval in 1..65536, mode 0b110 and
\* interval - 65537 for every interval in 65537..131072, and in both ranges
\* has left the wake timer enabled.
C5_WakeupEncoding ==
    (pc = "idle" /\ op = "enable_wakeup" /\ arg[1] >= 1 /\ arg[1] <= 131072) =>
        /\ ret = Ok
        /\ cr.wute
        /\ arg[1] <= 65536 => (cr.wucksel = 4 /\ wutr = arg[1] - 1)
        /\ arg[1] >= 65537 => (cr.wucksel = 6 /\ wutr = arg[1] - 65537)

C5_Witness ==
    /\ pc = "idle" /\ op = "enable_wakeup" /\ arg[1] = 65537
    /\ cr.wucksel = 6 /\ wutr = 0 /\ cr.wute

\* C6: enable_wakeup(0) and enable_wakeup(interval > 131072) never write the
\* wakeup reload register, never switch the wake timer back on and never
\* return: once the timer is switched off it stays off.
C6_OutOfRangeNeverProgrammed ==
    (op = "enable_wakeup" /\ (arg[1] = 0 \/ arg[1] > 131072)) =>
        /\ ~Did("wr:WUTR")
        /\ ~Did("wute:set")
        /\ pc # "idle"
        /\ Did("wute:clear") => ~cr.wute

C6_Witness ==
    /\ pc = "panic" /\ op = "enable_wakeup" /\ arg[1] = 131073
    /\ Did("wute:clear") /\ ~cr.wute /\ wutr = 0

\* C7: every step of listen(event) leaves all EXTI lines but the event's
\* line (17 for both alarms, 19 for Timestamp, 20 for Wakeup) and all
\* control-register bits but the event's enable bit as they are, and when
\* listen returns the line is rising-triggered and unmasked and the enable
\* bit is set.
C7_ListenRouting ==
    [][(op = "listen" /\ pc' # pc) =>
         LET event == arg[1]
             line == CASE event \in {"AlarmA", "AlarmB"} -> 17
                       [] event = "Timestamp" -> 19
                       [] event = "Wakeup" -> 20
             enable == CASE event = "AlarmA" -> "alraie"
                         [] event = "AlarmB" -> "alrbie"
                         [] event = "Timestamp" -> "tsie"
                         [] event = "Wakeup" -> "wutie"
         IN  /\ \A r \in DOMAIN exti : exti'[r] \ {line} = exti[r] \ {line}
             /\ \A k \in DOMAIN cr \ {enable} : cr'[k] = cr[k]
             /\ (pc # "idle" /\ pc' = "idle") =>
                    /\ ret' = Ok
                    /\ line \in exti'.rtsr /\ line \in exti'.imr
                    /\ cr'[enable]
      ]_vars

C7_Witness ==
    /\ pc = "idle" /\ op = "listen" /\ arg[1] = "AlarmB"
    /\ 17 \in exti.rtsr /\ 17 \in exti.imr /\ 0 \in exti.imr
    /\ cr.alrbie /\ ~cr.alraie /\ cr.wute

\* C8: the steps of unpend(event) clear the power controller's wake-up
\* flag, the event's own status flag and the pending bit of the event's line
\* (17 for both alarms, 19 for Timestamp, 20 for Wakeup); the status flag of
\* another event that was set when unpend read the status register is still
\* set after the write, and unpend returns only after all three.
C8_UnpendClearsOwn ==
    [][(op = "unpend" /\ pc # "idle" /\ pc' # pc) =>
         LET event == arg[1]
             line == CASE event \in {"AlarmA", "AlarmB"} -> 17
                       [] event = "Timestamp" -> 19
                       [] event = "Wakeup" -> 20
             flag == CASE event = "AlarmA" -> "alraf"
                       [] event = "AlarmB" -> "alrbf"
                       [] event = "Timestamp" -> "tsf"
                       [] event = "Wakeup" -> "wutf"
             others == {"alraf", "alrbf", "tsf", "wutf"} \ {flag}
         IN  /\ pwr'.wuf # pwr.wuf => ~pwr'.wuf
             /\ exti'.pr # exti.pr => exti'.pr = exti.pr \ {line}
             /\ isr' # isr => ~isr'[flag]
             /\ \A f \in others : ~isr[f] => ~isr'[f]
             /\ \A f \in others : (isr[f] /\ loc.isr[f]) => isr'[f]
             /\ (log' # log /\ Len(log') = 1) => ~pwr'.wuf
             /\ (log' # log /\ Len(log') = 2) => ~isr'[flag]
             /\ (log' # log /\ Len(log') = 3) => line \notin exti'.pr
             /\ pc' = "idle" => (ret' = Ok /\ Len(log') = 3)
      ]_vars

C8_Witness ==
    /\ pc = "idle" /\ op = "unpend" /\ arg[1] = "AlarmA" /\ Len(log) = 3
    /\ ~isr.alraf /\ isr.alrbf /\ 17 \notin exti.pr /\ ~pwr.wuf

\* C9: in every execution of get_datetime the time register is read only
\* after RSF was observed set, the date register only after the time
\* register, RSF is cleared only after both reads, and get_datetime has
\* cleared RSF when it decodes and returns.
C9_ReadOrder ==
    op = "get_datetime" =>
        /\ \A i \in At("rsf:seen") : log[i].rsf
        /\ Did("rd:TR") => Before("rsf:seen", "rd:TR")
        /\ Did("rd:DR") => Before("rd:TR", "rd:DR")
        /\ Did("rsf:clear") => (Before("rd:TR", "rsf:clear") /\ Before("rd:DR", "rsf:clear"))
        /\ (pc \in {"g_ret", "idle", "panic"}) =>
               (Did("rsf:clear") /\ \A e \in {"rsf:seen", "rd:TR", "rd:DR", "rsf:clear"} :
                                        Cardinality(At(e)) = 1)

C9_Witness ==
    /\ pc = "idle" /\ op = "get_datetime" /\ ret.tag = "DateTime"
    /\ Before("rsf:seen", "rd:TR") /\ Before("rd:TR", "rd:DR") /\ Before("rd:DR", "rsf:clear")
    /\ stamp = ret.v /\ stamp # <<>>

\* C10: every write to TR, DR or PRER is made with write protection unlocked
\* by 0xCA directly followed by 0x53 and with INITF set; a transaction's
\* steps come in the order unlock, init entry (INIT is set only after INITF
\* was read clear, and not at all after it was read set), mutation, INIT
\* cleared, INITF observed clear, lock; and once a transaction has returned,
\* INIT and INITF are clear and the registers are locked.
CalendarWrites == {"wr:TR", "wr:DR", "wr:PRER"}

C10_InitTransaction ==
    /\ \A i \in DOMAIN log : log[i].ev \in CalendarWrites =>
           /\ log[i].open /\ log[i].initf
           /\ \E j \in 1..(i - 2) : log[j].ev = "wpr:CA" /\ log[j + 1].ev = "wpr:53"
    /\ Did("wpr:53") => Before("wpr:CA", "wpr:53")
    /\ Did("isr:initf_set") => (Before("wpr:53", "isr:initf_set") /\ ~Did("init:set"))
    /\ Did("init:set") => (Before("wpr:53", "isr:initf_clear") /\ Before("isr:initf_clear", "init:set"))
    /\ Did("initf:seen") => (Before("init:set", "initf:seen") /\ \A i \in At("initf:seen") : log[i].initf)
    /\ \A w \in CalendarWrites \cup {"init:clear"} :
           Did(w) => (Before("isr:initf_set", w) \/ Before("initf:seen", w))
    /\ Did("init:clear") =>
           /\ \E w \in CalendarWrites : Did(w)
           /\ \A w \in CalendarWrites : Did(w) => Before(w, "init:clear")
    /\ Did("initf:gone") => (Before("init:clear", "initf:gone") /\ \A i \in At("initf:gone") : ~log[i].initf)
    /\ Did("wpr:FF") => Before("initf:gone", "wpr:FF")
    /\ (pc = "idle" /\ Did("wpr:FF")) =>
           (ret = Ok /\ ~isr.init /\ ~isr.initf /\ ~wpr.open /\ wpr.key = 255)

C10_Witness ==
    /\ pc = "idle" /\ op = "set_datetime" /\ ret = Ok
    /\ Did("isr:initf_set") /\ ~Did("init:set")
    /\ Before("wr:DR", "wr:TR") /\ Before("wr:TR", "init:clear") /\ Did("wpr:FF")
    /\ ~isr.init /\ ~isr.initf /\ ~wpr.open

\* C11: enable_wakeup, disable_wakeup, wakeup_timer and listen write the
\* control register and the wakeup reload register only with write
\* protection open, after 0xCA directly followed by 0x53 and before 0xFF;
\* they never set INIT; and whenever no operation is in progress the last
\* value written to the write-protection register is 0xFF.
LightOps == {"enable_wakeup", "disable_wakeup", "wakeup_timer", "listen"}

LightWrites == {"wute:clear", "wr:WUCKSEL", "wr:WUTR", "wute:set", "wr:CR"}

C11_LightTransaction ==
    /\ op \in LightOps =>
           /\ \A i \in DOMAIN log : log[i].ev \in LightWrites =>
                  /\ log[i].open
                  /\ \E j \in 1..(i - 2) : log[j].ev = "wpr:CA" /\ log[j + 1].ev = "wpr:53"
                  /\ \A k \in 1..i : log[k].ev # "wpr:FF"
           /\ ~Did("init:set") /\ ~isr.init
           /\ (pc = "idle" /\ ret = Ok) => (Did("wpr:FF") /\ \E w \in LightWrites : Did(w))
    /\ pc = "idle" => (wpr.key = 255 /\ ~wpr.open)

C11_Witness ==
    /\ pc = "idle" /\ op = "wakeup_timer" /\ ret = Ok
    /\ Did("wr:WUTR") /\ Did("wute:set") /\ cr.wutie /\ cr.wute
    /\ wpr.key = 255 /\ ~wpr.open

\* C12: a constructor that finds the ready flag of its oscillator set makes
\* no backup-domain reset and no step of it changes the time or the date
\* register, so the calendar held before construction is held after it; bit
\* 16 is set and cleared only after the ready flag was read clear.
C12_CalendarSurvives ==
    [][op' \in Ctors =>
         /\ ~Did("rdy:clear")' => (tr' = tr /\ dr' = dr)
         /\ Did("rdy:set")' => (~Did("wr:BDRST=1")' /\ ~Did("wr:BDRST=0")' /\ ~Did("rdy:clear")')
         /\ Did("wr:BDRST=1")' => Before("rdy:clear", "wr:BDRST=1")'
         /\ Did("wr:BDRST=0")' => Before("wr:BDRST=1", "wr:BDRST=0")'
         /\ (pc' = "idle" /\ Did("rdy:clear")') => Did("wr:BDRST=0")'
      ]_vars

C12_Witness ==
    /\ pc = "idle" /\ op = "new_lsi" /\ ret = Ok
    /\ Did("rdy:set") /\ Did("wr:PRER") /\ Did("wpr:FF")
    /\ tr = TR_LAST /\ dr = DR_LAST /\ prer = [s |-> 249, a |-> 127]

\* C13: whenever a constructor has returned, DBP is set, the oscillator of
\* the chosen source is ready, the clock mux holds 1 (LSE) or 2 (LSI), the
\* RTC is enabled, the hour format is 24-hour, the prescalers hold the
\* values passed, INIT is clear and write protection is locked.
C13_BringUpPostcondition ==
    (pc = "idle" /\ op \in Ctors) =>
        /\ pwr.dbp
        /\ op \in {"new", "with_config"} => (rcc.csr.lserdy /\ rcc.csr.rtcsel = 1)
        /\ op \in {"new_lsi", "lsi_with_config"} => (rcc.csr.lsirdy /\ rcc.csr.rtcsel = 2)
        /\ rcc.csr.rtcen
        /\ ~cr.fmt
        /\ prer = [s |-> arg[1], a |-> arg[2]]
        /\ ~isr.init /\ wpr.key = 255 /\ ~wpr.open

\* C14: a step of pend, unpend or is_pending (or an arriving edge) changes
\* the pending and software-interrupt bits of at most one line and no
\* trigger, mask or port-selection bit; so when an owner's listen_gpio,
\* listen_configurable or unlisten returns, the trigger and mask bits are
\* those the operation gives when run alone on the bits it was called with,
\* and when Rtc::listen returns its line is rising-triggered and unmasked.
AloneTriggers(o, a, t) ==
    IF o = "unlisten" THEN <<t[1] \ {a[1]}, t[2] \ {a[1]}, t[3] \ {a[1]}>>
    ELSE <<IF a[2] \in {"Rising", "Both"} THEN t[1] \cup {a[1]} ELSE t[1],
           IF a[2] \in {"Falling", "Both"} THEN t[2] \cup {a[1]} ELSE t[2],
           t[3] \cup {a[1]}>>

C14_StaticTrioSafe ==
    [][/\ pc' = pc =>
            /\ Triggers' = Triggers /\ exti'.exticr = exti.exticr
            /\ \E line \in 0..31 : \A r \in {"pr", "swier"} : exti'[r] \ {line} = exti[r] \ {line}
       /\ (pc # "idle" /\ pc' = "idle" /\ op \in {"listen_gpio", "listen_configurable", "unlisten"}) =>
            Triggers' = AloneTriggers(op, arg, stamp)
       /\ (pc # "idle" /\ pc' = "idle" /\ op = "listen") =>
            (17 \in exti'.rtsr /\ 17 \in exti'.imr)
      ]_vars

C14_Witness ==
    /\ pc = "x_im_w" /\ op = "listen_configurable" /\ arg = <<1, "Both", 0>>
    /\ stamp = <<{17}, {}, {17}>> /\ exti.rtsr = {1, 17} /\ exti.ftsr = {1}
    /\ 1 \in exti.swier /\ 1 \notin exti.pr /\ 17 \in exti.pr

\* C15: when listen_configurable or listen_gpio has returned, the line is
\* unmasked and its trigger bits are exactly those of the edge asked for
\* (Rising: rising only, Falling: falling only, Both: both), whatever calls
\* came before; when unlisten has returned, the line is masked with both
\* trigger bits clear and every other line's bits are as they were.
C15_TriggerEdgeContract ==
    /\ (pc = "idle" /\ op \in {"listen_gpio", "listen_configurable"}) =>
           /\ arg[1] \in exti.imr
           /\ (arg[1] \in exti.rtsr) = (arg[2] \in {"Rising", "Both"})
           /\ (arg[1] \in exti.ftsr) = (arg[2] \in {"Falling", "Both"})
    /\ (pc = "idle" /\ op = "unlisten") =>
           /\ arg[1] \notin (exti.imr \cup exti.rtsr \cup exti.ftsr)
           /\ \A k \in 1..3 : Triggers[k] \ {arg[1]} = stamp[k] \ {arg[1]}

\* C16: in every constructor execution PWREN and then DBP are written
\* before any backup-domain register; when the ready flag was read clear,
\* bit 16 is set then cleared before the oscillator is switched on, and the
\* ready flag is seen set before the mux is written; the mux is written
\* before RTCEN, and the init-mode transaction (24-hour format, then the
\* prescalers) comes after RTCEN.  The bypass bit is written by the LSE
\* constructors only, once, when they switch the oscillator on, and then set
\* exactly when Bypass was requested.
BackupWrites ==
    {"wr:BDRST=1", "wr:BDRST=0", "wr:OSCON", "wr:LSEBYP=1", "wr:LSEBYP=0", "wr:RTCSEL", "wr:RTCEN"}

C16_BringUpOrder ==
    op \in Ctors =>
        /\ Did("wr:DBP") => (Before("wr:APB1ENR", "wr:DBP") /\ pwr.dbp)
        /\ \A e \in BackupWrites \cup {"rdy:set", "rdy:clear"} : Did(e) => Before("wr:DBP", e)
        /\ Did("wr:OSCON") =>
               /\ Before("rdy:clear", "wr:BDRST=1")
               /\ Before("wr:BDRST=1", "wr:BDRST=0")
               /\ Before("wr:BDRST=0", "wr:OSCON")
        /\ Did("wr:RTCSEL") =>
               /\ Did("rdy:set") \/ (Before("wr:OSCON", "rdy:seen") /\ Before("rdy:seen", "wr:RTCSEL"))
               /\ Did("rdy:set") => Before("rdy:set", "wr:RTCSEL")
        /\ Did("wr:RTCEN") => Before("wr:RTCSEL", "wr:RTCEN")
        /\ Did("wpr:CA") => Before("wr:RTCEN", "wpr:CA")
        /\ Did("wr:CR") => Before("wpr:53", "wr:CR")
        /\ Did("wr:PRER") => Before("wr:CR", "wr:PRER")
        /\ Did("wr:LSEBYP=1") => (op \in LseCtors /\ arg[3] = 1 /\ ~Did("wr:LSEBYP=0"))
        /\ Did("wr:LSEBYP=0") => (op \in LseCtors /\ arg[3] = 0 /\ ~Did("wr:LSEBYP=1"))
        /\ (Did("wr:LSEBYP=1") \/ Did("wr:LSEBYP=0")) =>
               /\ Before("wr:OSCON", IF arg[3] = 1 THEN "wr:LSEBYP=1" ELSE "wr:LSEBYP=0")
               /\ rcc.csr.lsebyp = (arg[3] = 1)
        /\ (op \in LseCtors /\ Did("rdy:seen")) =>
               Before(IF arg[3] = 1 THEN "wr:LSEBYP=1" ELSE "wr:LSEBYP=0", "rdy:seen")
        /\ (pc = "idle") =>
               /\ Did("wr:RTCEN") /\ Did("wr:PRER") /\ Did("wpr:FF")
               /\ \A e \in BackupWrites \cup {"wr:APB1ENR", "wr:DBP", "wr:CR", "wr:PRER"} :
                      Cardinality(At(e)) <= 1

C16_Witness ==
    /\ pc = "idle" /\ op = "with_config" /\ arg[3] = 1 /\ ret = Ok
    /\ Before("wr:BDRST=0", "wr:OSCON") /\ Before("wr:OSCON", "wr:LSEBYP=1")
    /\ Before("rdy:seen", "wr:RTCSEL") /\ Before("wr:RTCEN", "wpr:CA")
    /\ rcc.csr.lsebyp /\ rcc.csr.lserdy

\* C17: an operation in progress stands at a polling loop whose flag has not
\* answered (Waiting) or it takes its next step.  If the hardware never
\* leaves a polled flag unanswered for ever, every operation in progress
\* eventually returns with write protection locked; and while the polled
\* flag has not answered, the operation stays at its loop and writes neither
\* the registers it is about to change nor the lock.
Waiting ==
    \/ pc = "c_wait" /\ ~OscReady(op)
    \/ pc = "m_wait" /\ ~isr.initf
    \/ pc = "m_wait2" /\ isr.initf
    \/ pc = "w_wait" /\ op = "enable_wakeup" /\ ~isr.wutwf
    \/ pc = "w_wait" /\ op = "wakeup_timer" /\ isr.wutf
    \/ pc = "g_wait" /\ ~isr.rsf

C17_Termination ==
    /\ []<>(~Waiting) => ((pc # "idle") ~> (pc = "idle" /\ ret # Result("none") /\ ~wpr.open))
    /\ [][Waiting => (pc' = pc /\ log' = log /\ ret' = ret /\
                      <<wpr, cr, tr, dr, prer, wutr>>' = <<wpr, cr, tr, dr, prer, wutr>>)]_vars

C17_Witness ==
    /\ pc = "idle" /\ op = "new" /\ ret = Ok
    /\ Did("rdy:seen") /\ Did("initf:seen") /\ Did("initf:gone") /\ Did("wpr:FF")
    /\ ~wpr.open

\* C18: set_date writes the date register exactly once and the time register
\* never, set_datetime writes each exactly once, between one entry into and
\* one exit from init mode of one unlock; the date and time registers change
\* only in a logged write made with INITF set; hence whenever INITF is clear
\* during or after such a call the registers hold the previous date-time
\* (nothing written yet) or the complete new one (everything written).
Count(e) == Cardinality(At(e))

Combined == op \in {"set_date", "set_datetime"} /\ ret # Err

TimeWrites == IF op = "set_datetime" THEN 1 ELSE 0

NewDateTime ==
    /\ <<decode_year(dr), decode_month(dr), decode_day(dr)>> = <<arg[1], arg[2], arg[3]>>
    /\ op = "set_datetime" =>
           <<decode_hours(tr), decode_minutes(tr), decode_seconds(tr)>> = <<arg[4], arg[5], arg[6]>>

C18_AtomicSetters ==
    /\ [](Combined =>
            /\ Count("wr:DR") <= 1 /\ Count("wr:TR") <= TimeWrites
            /\ Count("wpr:53") <= 1 /\ Count("init:set") <= 1 /\ Count("init:clear") <= 1
            /\ pc = "idle" =>
                   /\ Count("wr:DR") = 1 /\ Count("wr:TR") = TimeWrites
                   /\ Count("wpr:53") = 1 /\ Count("init:clear") = 1 /\ Count("wpr:FF") = 1
                   /\ ~isr.initf
            /\ ~isr.initf =>
                   \/ ~Did("wr:DR") /\ ~Did("wr:TR")
                   \/ Count("wr:DR") = 1 /\ Count("wr:TR") = TimeWrites /\ NewDateTime)
    /\ [][(tr' # tr \/ dr' # dr) =>
             /\ isr.initf /\ isr'.initf
             /\ Len(log') = Len(log) + 1
             /\ log'[Len(log')].ev \in {"wr:TR", "wr:DR"}]_vars

C18_Witness ==
    /\ pc = "idle" /\ op = "set_datetime" /\ ret = Ok
    /\ arg = <<EPOCH, 1, 1, 0, 0, 0>>
    /\ Before("wr:DR", "wr:TR") /\ Did("init:set")
    /\ ~isr.initf /\ NewDateTime
    /\ tr # TR_LAST /\ dr # DR_LAST

\* C19: whenever set_hours, set_time or set_datetime has returned Ok the PM
\* bit of the time register is 0, and whenever no operation is in progress
\* after construction the control register selects the 24-hour format.
C19_HourDiscipline ==
    /\ (pc = "idle" /\ op \in HourOps /\ ret = Ok) => ~tr.pm
    /\ (pc = "idle" /\ Built) => ~cr.fmt

\* C20: whenever wakeup_timer(val) has returned, it cleared WUTF and read it
\* clear before it wrote the reload register, the reload register holds
\* val mod 65536, the clock selection is 0b100, WUTIE and WUTE are set and
\* write protection is locked; so for val in 1..65536 the reload register
\* holds one more (mod 65536) than enable_wakeup(val) programs.
C20_WakeupTimer ==
    (pc = "idle" /\ op = "wakeup_timer") =>
        /\ ret = Ok
        /\ Before("wutf:clear", "wutf:gone") /\ Before("wutf:gone", "wr:WUTR")
        /\ wutr = arg[1] % U16
        /\ cr.wucksel = WUCK_SPRE
        /\ cr.wutie /\ cr.wute
        /\ ~wpr.open /\ wpr.key = LOCK
        /\ arg[1] \in 1..U16 => wutr = (wakeup_reload(arg[1]).wut + 1) % U16

\* C21: in every execution of enable_wakeup WUTE is cleared, then WUTF, then
\* WUTWF is read set, and only then are the clock selection and the reload
\* register written, each while WUTE is clear and WUTWF set so that the
\* write takes effect, and WUTE is set only after the reload register was
\* written; disable_wakeup clears WUTE, then WUTF, and none of its steps
\* changes any other bit of the control register.
Last(l) == l[Len(l)].ev

C21_WakeupOrder ==
    /\ [](op = "enable_wakeup" =>
            /\ Did("wutf:clear") => Before("wute:clear", "wutf:clear")
            /\ Did("wutwf:seen") => Before("wutf:clear", "wutwf:seen")
            /\ Did("wr:WUCKSEL") => Before("wutwf:seen", "wr:WUCKSEL")
            /\ Did("wr:WUTR") => Before("wutwf:seen", "wr:WUTR")
            /\ Did("wute:set") => Before("wr:WUTR", "wute:set"))
    /\ []((pc = "idle" /\ op = "disable_wakeup") =>
            (Before("wute:clear", "wutf:clear") /\ Before("wutf:clear", "wpr:FF") /\ ~cr.wute))
    /\ [][(op = "enable_wakeup" /\ Len(log') = Len(log) + 1) =>
            /\ Last(log') = "wr:WUCKSEL" =>
                   (~cr.wute /\ isr.wutwf /\ cr'.wucksel = wakeup_select(arg[1]))
            /\ Last(log') = "wr:WUTR" =>
                   (~cr.wute /\ isr.wutwf /\ wutr' = wakeup_reload(arg[1]).wut)]_vars
    /\ [][(op = "disable_wakeup" /\ pc # "idle") =>
            ((cr'.wute => cr.wute) /\ [cr' EXCEPT !.wute = FALSE] = [cr EXCEPT !.wute = FALSE])]_vars

C21_Witness ==
    /\ pc = "idle" /\ op = "disable_wakeup" /\ ret = Ok
    /\ Before("wute:clear", "wutf:clear")
    /\ cr.wutie /\ ~cr.wute
    /\ cr.wucksel = WUCK_SPRE_OFFSET /\ wutr = 0

\* C22: whenever no operation is in progress the time and date registers
\* decode to a date and a time that pass the validity check of
\* get_datetime, and get_datetime never aborts.
ValidCalendar(t, d) ==
    LET v == Decoded(t, d) IN ValidDate(v[1], v[2], v[3]) /\ ValidTime(v[4], v[5], v[6])

C22_CalendarStaysValid ==
    /\ pc = "idle" => ValidCalendar(tr, dr)
    /\ ~(op = "get_datetime" /\ pc = "panic")

\* C23: an interrupt-enable bit of the control register (ALRAIE, ALRBIE,
\* TSIE, WUTIE) that is set stays set in every step of every driver
\* operation: the bits are set by listen and no operation clears one.
EnableBits == {Enable(event) : event \in Events}

C23_ListenDurable ==
    [][\A b \in EnableBits : cr[b] => cr'[b]]_vars

\* C24: no step of a per-field setter changes a field of the time and date
\* registers other than the setter's own digits (seconds, minutes, hours,
\* weekday, day, month, year), and no step of set_date or set_datetime
\* changes the weekday field.
OwnFields(o) ==
    CASE o = "set_seconds" -> {"st", "su"}
      [] o = "set_minutes" -> {"mnt", "mnu"}
      [] o = "set_hours" -> {"ht", "hu"}
      [] o = "set_weekday" -> {"wdu"}
      [] o = "set_day" -> {"dt", "du"}
      [] o = "set_month" -> {"mt", "mu"}
      [] o = "set_year" -> {"yt", "yu"}
      [] o = "set_date" -> {"dt", "du", "mt", "mu", "yt", "yu"}
      [] o = "set_datetime" -> {"dt", "du", "mt", "mu", "yt", "yu",
                                "ht", "hu", "mnt", "mnu", "st", "su", "pm"}
      [] OTHER -> {}

FieldSetters == {"set_seconds", "set_minutes", "set_hours", "set_weekday",
                 "set_day", "set_month", "set_year", "set_date", "set_datetime"}

C24_SetterFrame ==
    [][(op \in FieldSetters) =>
          ((\A f \in (DOMAIN tr) \ OwnFields(op) : tr'[f] = tr[f]) /\
           (\A f \in (DOMAIN dr) \ OwnFields(op) : dr'[f] = dr[f]))]_vars

\* C25: when unpend(event) or disable_wakeup writes the status register
\* back, every status flag other than the one being acknowledged that is
\* set at that moment, in particular one the hardware raised after the
\* operation read the register, is still set after the write.
StatusFlags == {Flag(event) : event \in Events}

Acknowledged == IF op = "unpend" THEN Flag(arg[1]) ELSE "wutf"

WritesBack ==
    \/ op = "unpend" /\ pc = "u_isr_w" /\ pc' # pc
    \/ op = "disable_wakeup" /\ pc = "w_clr_w" /\ pc' # pc

C25_NoEventLost ==
    [][WritesBack => \A f \in StatusFlags \ {Acknowledged} : isr[f] => isr'[f]]_vars

\* C26: no step of a constructor clears a peripheral clock enable of the
\* APB1 enable register or sets one other than the power interface's, and
\* none changes a bit of the power controller other than DBP.
C26_BringUpFrame ==
    [][(rcc.apb1enr \subseteq rcc'.apb1enr) /\
       ((rcc'.apb1enr \ rcc.apb1enr) \subseteq {"pwr"}) /\
       ([pwr' EXCEPT !.dbp = TRUE] = [pwr EXCEPT !.dbp = TRUE])]_vars

====
